---- MODULE Spec2Model ----
(***************************************************************************)
(* HistoCoin headless node: the artifact discovery pipeline.               *)
(*                                                                         *)
(*   registry store    node/src/sourceIndex.ts                             *)
(*   traversal engine  node/src/scraper.ts                                 *)
(*   relevance gate    node/src/llama.ts                                   *)
(*   source resolver   node CLI (resolveSources, runNode, processSources)  *)
(*   config loading    node/src/config.ts                                  *)
(*   licensing scorer  cc0 (assessCc0)                                     *)
(*                                                                         *)
(* Strings that the code inspects are sequences of tokens, so that         *)
(* normalisation, substring search and brace matching are computed and     *)
(* not assumed.  Each component has its own specification over the shared  *)
(* variables; a specification leaves the other components' variables       *)
(* untouched.                                                              *)
(***************************************************************************)
EXTENDS Integers, Sequences, FiniteSets, TLC

VARIABLES
    indexFile,      \* the registry file on disk: [exists, hasSources, sources]
    defaultIndex,   \* the process-wide DEFAULT_INDEX.sources array
    lastCall,       \* the latest addSourceToIndex call: [baseUrl, threw, added, source]
    rProc,          \* processes sharing the registry file: each one's DEFAULT_INDEX and call in progress
    \* scrapeSource (scraper.ts)
    tSource,        \* the source being scraped: [baseUrl, collection]
    tPc,            \* "listing", "detail", "single" or "done"
    tIdx,           \* position in listingUrls, then in detailLinks
    detailLinks,    \* the local detailLinks: sequence of [url, listing]
    artifacts,      \* the artifacts collected so far
    listingFetches, \* URLs requested in the listing phase, in order
    detailFetches,  \* URLs requested in the detail phase (or the single fetch), in order
    offered,        \* history: the distinct link targets of the listing pages fetched
    fetchFailures,  \* number of fetch failures so far
    \* classifyArtifactWithLlama (llama.ts)
    gExchange,      \* the HTTP exchange with the classifier: [kind, raw]
    gResult,        \* [called, threw, value]: what the call returned
    \* processSources (node CLI)
    dOpts,          \* the run options processSources reads
    dSources,       \* the sources argument
    dSrcIdx,        \* position in the slice of sources
    dArtifacts,     \* the artifacts scrapeSource returned for the current source
    dArtIdx,        \* position in dArtifacts
    dPc,            \* the statement processSources is at
    cur,            \* the artifact most recently begun, and what was done with it
    \* resolveSources and runNode (node CLI)
    nOpts,          \* the run options resolveSources and runNode read
    nFile,          \* the local source-list file, as last read
    nRemote,        \* the remote /sources exchange, as last made
    nResult,        \* [outcome, sources]: what the last resolveSources call did
    nPc,            \* the statement runNode is at
    keepRunning,    \* runNode's flag, cleared by SIGINT
    exitCode,       \* process.exitCode
    silent,         \* the peers that accept a request and never answer it
    \* assessCc0 (cc0)
    cText,          \* the text argument, as words
    cExtra,         \* the extraEvidence argument
    cPrev,          \* the result for the text before a phrase was added
    cResult,        \* the result of the last call
    \* fetchHtml (scraper.ts)
    hCall,          \* the call of fetchHtml in progress, and the calls made
    \* AtlasClient (atlasClient.ts)
    mirror,         \* the client object, the requests it issued, its last return
    \* atlas worker (worker-atlas)
    atlasKv,        \* the two KV namespaces: key -> stored record
    atlasLast,      \* the last request handled and the response to it
    atlasNow,       \* the worker's clock
    \* parseHtml (scraper.ts)
    pCall           \* the page and source parseHtml was given, and its result

regVars == <<indexFile, defaultIndex, lastCall, rProc>>

travVars == <<tSource, tPc, tIdx, detailLinks, artifacts, listingFetches,
              detailFetches, offered, fetchFailures>>

gateVars == <<gExchange, gResult>>

drvVars == <<dOpts, dSources, dSrcIdx, dArtifacts, dArtIdx, dPc, cur>>

nodeVars == <<nOpts, nFile, nRemote, nResult, nPc, keepRunning, exitCode, silent>>

cc0Vars == <<cText, cExtra, cPrev, cResult>>

svcVars == <<hCall, mirror, atlasKv, atlasLast, atlasNow, pCall>>

vars == <<regVars, travVars, gateVars, drvVars, nodeVars, cc0Vars, svcVars>>

\* JavaScript's undefined / null, where a string, a URL, a number or an
\* object is expected (a number n that is present is <<n>>).
NoVal == "undefined"

NoUrl == <<>>

NoNum == <<>>

NoSource == [none |-> TRUE]

(***************************************************************************)
(* Bounds.                                                                 *)
(***************************************************************************)
MaxTail == 2        \* tokens after the host in a raw URL
MaxEntries == 2     \* registry entries the model lets the file grow to
MaxLink == 5        \* detail URLs that the short listing pages link to
MaxAnchors == 5     \* consecutive distinct links on a short listing page
MaxFailures == 1    \* fetch failures in one traversal
MaxResp == 5        \* tokens in a classifier response text
MaxDriverResp == 3  \* tokens in a classifier response text, within a pass
MaxArtifacts == 2   \* artifacts one scrapeSource call returns
MaxFileSources == 2 \* entries of a local source-list file
MaxRemote == 2      \* items of a remote source list
MaxChunks == 2      \* chunks a text is put together from
MaxExtra == 5       \* entries of extraEvidence

(***************************************************************************)
(* Generic helpers.                                                        *)
(***************************************************************************)
SeqsUpTo(S, n) == UNION {[1..k -> S] : k \in 0..n}

Last(s) == s[Len(s)]

Front(s) == SubSeq(s, 1, Len(s) - 1)

\* Index of the first element of s that is in S, or 0.
RECURSIVE FirstIn(_, _, _)
FirstIn(s, S, i) ==
    IF i > Len(s) THEN 0
    ELSE IF s[i] \in S THEN i
    ELSE FirstIn(s, S, i + 1)

\* String.prototype.toLowerCase on the tokens the model uses.
toLowerCase(tok) ==
    CASE tok = "HTTPS://" -> "https://"
      [] tok = "A.org" -> "a.org"
      [] tok = "Public" -> "public"
      [] tok = "DOMAIN" -> "domain"
      [] tok = "CC0" -> "cc0"
      [] tok = "P" -> "p"
      [] OTHER -> tok

LowerSeq(s) == [i \in 1..Len(s) |-> toLowerCase(s[i])]

(***************************************************************************)
(* Raw URLs: an optional scheme as written, a host as written, and the     *)
(* rest of the string as one-character tokens.  "//" is a scheme-relative  *)
(* URL, which new URL() rejects without a base.                            *)
(***************************************************************************)
Origins ==
    { [scheme |-> "https://", host |-> "a.org"],
      [scheme |-> "HTTPS://", host |-> "A.org"],
      [scheme |-> "", host |-> "A.org"],
      [scheme |-> "//", host |-> "a.org"] }

TailToks == {"/", "p", "?", "#"}

Tails == {t \in SeqsUpTo(TailToks, MaxTail) : t = <<>> \/ t[1] # "p"}

RawUrls ==
    {[scheme |-> o.scheme, host |-> o.host, tail |-> t] : o \in Origins, t \in Tails}

\* /^(https?:)?\/\//i.test(trimmed)
hasScheme(raw) == raw.scheme # ""

\* new URL(s) followed by url.hash = "" and url.toString(): the scheme and the
\* host are lower-cased, an empty path becomes "/", the query is kept (with
\* its "?"), the fragment is dropped.  Throws for a scheme-relative URL.
UrlThrows(raw) == raw.scheme = "//"

PathOf(tail) ==
    LET cut == FirstIn(tail, {"?", "#"}, 1)
    IN  IF cut = 0 THEN tail ELSE SubSeq(tail, 1, cut - 1)

QueryOf(tail) ==
    LET q == FirstIn(tail, {"?", "#"}, 1)
    IN  IF q = 0 \/ tail[q] = "#" THEN <<>>
        ELSE LET h == FirstIn(tail, {"#"}, q)
             IN  IF h = 0 THEN SubSeq(tail, q, Len(tail))
                 ELSE SubSeq(tail, q, h - 1)

HrefNoHash(raw) ==
    LET path == PathOf(raw.tail)
    IN  <<(IF hasScheme(raw) THEN toLowerCase(raw.scheme) ELSE "https://"),
          toLowerCase(raw.host)>>
        \o (IF path = <<>> THEN <<"/">> ELSE path)
        \o QueryOf(raw.tail)

\* .replace(/\/$/, ""): one trailing slash is removed.
StripTrailingSlash(s) == IF Len(s) > 0 /\ Last(s) = "/" THEN Front(s) ELSE s

\* normalizeUrl of a URL that parses.
normalizeUrl(raw) == StripTrailingSlash(HrefNoHash(raw))

\* new URL(baseUrl).hostname
hostnameOf(baseUrl) == baseUrl[2]

(***************************************************************************)
(* The registry file and DEFAULT_INDEX.                                    *)
(***************************************************************************)
\* const DEFAULT_INDEX = { sources: [] } as first loaded.
DEFAULT_INDEX == <<>>

AbsentFile == [exists |-> FALSE, hasSources |-> FALSE, sources |-> <<>>]

FileWith(srcs) == [exists |-> TRUE, hasSources |-> TRUE, sources |-> srcs]

\* A JSON document without a "sources" array, e.g. {}.
FileNoSources == [exists |-> TRUE, hasSources |-> FALSE, sources |-> <<>>]

\* ensureIndexFile: writes JSON.stringify(DEFAULT_INDEX) when the file is absent.
ensureIndexFile(file, dflt) == IF file.exists THEN file ELSE FileWith(dflt)

\* A readIndex that answers from the array the process holds and never from
\* the file.
readIndex_Cached(file, dflt) ==
    [file |-> ensureIndexFile(file, dflt), sources |-> dflt, aliased |-> TRUE]

\* readIndex: [file, sources, aliased]; aliased says that the returned object
\* shares its sources array with DEFAULT_INDEX ({ ...DEFAULT_INDEX }).
readIndex(file, dflt) ==
    LET f == ensureIndexFile(file, dflt)
    IN  IF f.hasSources
        THEN [file |-> f, sources |-> f.sources, aliased |-> FALSE]
        ELSE [file |-> f, sources |-> dflt, aliased |-> TRUE]

\* writeIndex
writeIndex(data) == FileWith(data)

\* slugify on the names the model uses.
slugify(name) ==
    CASE name = "Met Museum" -> "met-museum"
      [] name = "a.org archive" -> "a-org-archive"
      [] OTHER -> name

AddOptsNone == [name |-> NoVal, type |-> NoVal, notes |-> NoVal, priority |-> NoNum]

AddOpts ==
    { AddOptsNone,
      [name |-> "Met Museum", type |-> "met_api", notes |-> "seed", priority |-> <<5>>] }

\* randomUUID().slice(0, 6)
Rnd == {"r1", "r2"}

\* Mutant: a lookup that compares the URLs as they are written.
RECURSIVE findExisting_CaseSensitive(_, _, _)
findExisting_CaseSensitive(srcs, baseUrl, i) ==
    IF i > Len(srcs) THEN 0
    ELSE IF srcs[i].baseUrl = baseUrl THEN i
    ELSE findExisting_CaseSensitive(srcs, baseUrl, i + 1)

\* Array.prototype.find: index of the first entry whose lower-cased baseUrl
\* equals the lower-cased normalised URL, or 0.
RECURSIVE findExisting(_, _, _)
findExisting(srcs, baseUrl, i) ==
    IF i > Len(srcs) THEN 0
    ELSE IF LowerSeq(srcs[i].baseUrl) = LowerSeq(baseUrl) THEN i
    ELSE findExisting(srcs, baseUrl, i + 1)

newSource(baseUrl, opts, rnd) ==
    LET inferredName == IF opts.name # NoVal THEN opts.name
                        ELSE hostnameOf(baseUrl) \o " archive"
    IN  [ id |-> <<slugify(inferredName), rnd>>,
          name |-> inferredName,
          baseUrl |-> baseUrl,
          type |-> IF opts.type # NoVal THEN opts.type ELSE "generic",
          notes |-> opts.notes,
          priority |-> opts.priority ]

\* Mutant: an upsert, which rewrites a matching entry from the later call.
addSourceToIndex_Upsert(file, dflt, url, opts, rnd) ==
    IF UrlThrows(url)
    THEN [threw |-> TRUE, added |-> FALSE, source |-> NoSource,
          baseUrl |-> NoUrl, file |-> file, dflt |-> dflt]
    ELSE
    LET baseUrl == normalizeUrl(url)
        index == readIndex(file, dflt)
        at == findExisting(index.sources, baseUrl, 1)
        source == newSource(baseUrl, opts, rnd)
    IN  IF at # 0
        THEN [threw |-> FALSE, added |-> FALSE, source |-> source,
              baseUrl |-> baseUrl,
              file |-> writeIndex([index.sources EXCEPT ![at] = source]),
              dflt |-> dflt]
        ELSE [threw |-> FALSE, added |-> TRUE, source |-> source,
              baseUrl |-> baseUrl, file |-> writeIndex(Append(index.sources, source)),
              dflt |-> IF index.aliased THEN Append(index.sources, source) ELSE dflt]

\* addSourceToIndex(options): the outcome [threw, added, source, file, dflt],
\* with the local baseUrl the call computed.
addSourceToIndex(file, dflt, url, opts, rnd) ==
    IF UrlThrows(url)
    THEN [threw |-> TRUE, added |-> FALSE, source |-> NoSource,
          baseUrl |-> NoUrl, file |-> file, dflt |-> dflt]
    ELSE
    LET baseUrl == normalizeUrl(url)
        index == readIndex(file, dflt)
        at == findExisting(index.sources, baseUrl, 1)
    IN  IF at # 0
        THEN [threw |-> FALSE, added |-> FALSE, source |-> index.sources[at],
              baseUrl |-> baseUrl, file |-> index.file, dflt |-> dflt]
        ELSE LET source == newSource(baseUrl, opts, rnd)
                 pushed == Append(index.sources, source)
             IN  [threw |-> FALSE, added |-> TRUE, source |-> source,
                  baseUrl |-> baseUrl, file |-> writeIndex(pushed),
                  dflt |-> IF index.aliased THEN pushed ELSE dflt]

\* No other process is modelled.
NoProcs == <<>>

\* The registry and the traversal at rest.
NoCall == [baseUrl |-> NoUrl, threw |-> FALSE, added |-> FALSE, source |-> NoSource]

RegistryIdle ==
    /\ indexFile = FileWith(<<>>)
    /\ defaultIndex = DEFAULT_INDEX
    /\ lastCall = NoCall
    /\ rProc = NoProcs

NoCollection == [none |-> TRUE]

TraversalIdle ==
    /\ tSource = [baseUrl |-> <<"B">>, collection |-> NoCollection]
    /\ tPc = "done"
    /\ tIdx = 0
    /\ detailLinks = <<>>
    /\ artifacts = <<>>
    /\ listingFetches = <<>>
    /\ detailFetches = <<>>
    /\ offered = {}
    /\ fetchFailures = 0

NoAssessment == [none |-> TRUE]

NoExchange == [kind |-> "none", raw |-> <<>>]

GateIdle ==
    /\ gExchange = NoExchange
    /\ gResult = [called |-> FALSE, threw |-> FALSE, value |-> NoAssessment]

NoPayload == [none |-> TRUE]

NoArtifact ==
    [url |-> NoUrl, isLikelyCc0 |-> FALSE, exchange |-> "none", bracePair |-> FALSE,
     llamaAssessment |-> NoAssessment, metadataLlama |-> NoAssessment,
     steps |-> <<>>, posted |-> NoPayload]

DriverIdle ==
    /\ dOpts = [llamaEnabled |-> FALSE, dryRun |-> FALSE,
                appendArtifactsToIndex |-> FALSE, cooldown |-> FALSE,
                maxSources |-> NoNum]
    /\ dSources = <<>>
    /\ dSrcIdx = 1
    /\ dArtifacts = <<>>
    /\ dArtIdx = 1
    /\ dPc = "done"
    /\ cur = NoArtifact

NoTarget == [scheme |-> "", host |-> "", tail |-> <<>>]

NoLocalFile == [kind |-> "missing", sources |-> <<>>]

NoRemote == [kind |-> "none", data |-> <<>>]

NodeIdle ==
    /\ nOpts = [targetUrl |-> NoTarget, targetName |-> NoVal, randomFromGlobal |-> FALSE,
                fetchRemoteSources |-> FALSE, sourcesPath |-> FALSE, loop |-> FALSE]
    /\ nFile = NoLocalFile
    /\ nRemote = NoRemote
    /\ nResult = [outcome |-> "none", sources |-> <<>>]
    /\ nPc = "stopped"
    /\ keepRunning = TRUE
    /\ exitCode = 0
    /\ silent = {}

NoResult == [none |-> TRUE]

Cc0Idle ==
    /\ cText = <<>>
    /\ cExtra = <<>>
    /\ cPrev = NoResult
    /\ cResult = NoResult

\* No page is being fetched, no mirror client exists, the worker has stored
\* nothing and handled nothing.
ServicesIdle ==
    /\ hCall = [pc |-> "idle", timer |-> "none", aborted |-> FALSE, calls |-> <<>>]
    /\ mirror = [none |-> TRUE]
    /\ atlasKv = [sources |-> {}, artifacts |-> {}]
    /\ atlasLast = [none |-> TRUE]
    /\ atlasNow = 0
    /\ pCall = [none |-> TRUE]

(***************************************************************************)
(* Registry specification: one process calling addSourceToIndex.           *)
(***************************************************************************)
RegistryInit ==
    /\ indexFile \in {AbsentFile, FileWith(<<>>), FileNoSources}
    /\ defaultIndex = DEFAULT_INDEX
    /\ lastCall = NoCall
    /\ rProc = NoProcs
    /\ TraversalIdle
    /\ GateIdle
    /\ DriverIdle
    /\ NodeIdle
    /\ Cc0Idle
    /\ ServicesIdle

AddSourceToIndex ==
    \E url \in RawUrls, opts \in AddOpts, rnd \in Rnd :
        LET out == addSourceToIndex(indexFile, defaultIndex, url, opts, rnd)
        IN  /\ Len(out.file.sources) <= MaxEntries
            /\ indexFile' = out.file
            /\ defaultIndex' = out.dflt
            /\ lastCall' = [baseUrl |-> out.baseUrl, threw |-> out.threw,
                            added |-> out.added, source |-> out.source]
            /\ UNCHANGED <<rProc, travVars, gateVars, cc0Vars, svcVars, drvVars, nodeVars>>

RegistryNext == AddSourceToIndex

RegistrySpec == RegistryInit /\ [][RegistryNext]_vars

(***************************************************************************)
(* Registry claims.                                                        *)
(***************************************************************************)
ValidRawUrls == {u \in RawUrls : ~UrlThrows(u)}

\* The raw string without its fragment.
NoFragment(tail) ==
    LET h == FirstIn(tail, {"#"}, 1)
    IN  IF h = 0 THEN tail ELSE SubSeq(tail, 1, h - 1)

\* u and v differ only by a trailing slash, a fragment, or letter case in
\* scheme and host.
UrlVariant(u, v) ==
    /\ toLowerCase(u.scheme) = toLowerCase(v.scheme)
    /\ toLowerCase(u.host) = toLowerCase(v.host)
    /\ LET a == NoFragment(u.tail)
           b == NoFragment(v.tail)
       IN  a = b \/ a = Append(b, "/") \/ b = Append(a, "/")

\* Indexes of the stored records created for u or for a variant of u.
RecordsOfVariants(u) ==
    {i \in 1..Len(indexFile.sources) :
        \E v \in ValidRawUrls :
            UrlVariant(u, v) /\ indexFile.sources[i].baseUrl = normalizeUrl(v)}

\* C1: after a call with URL u, the stored registry holds exactly one record
\* for u and all URLs that differ from u only by a trailing slash, a fragment
\* or letter case in scheme/host, and that record is the entry the call
\* returned (so a call after a variant was added returns added = false with
\* the variant's entry).
C1_OneRecordPerVariantClass ==
    \A u \in ValidRawUrls :
        (~lastCall.threw /\ lastCall.baseUrl = normalizeUrl(u)) =>
            /\ Cardinality(RecordsOfVariants(u)) = 1
            /\ \A i \in RecordsOfVariants(u) : indexFile.sources[i] = lastCall.source

\* C2: a call whose normalised URL matches an entry of the registry as read
\* returns that entry as stored, with added = false, and changes neither the
\* registry file nor any of its records.
C2_ExistingIsNoOp ==
    [][ LET before == readIndex(indexFile, defaultIndex).sources
            at == IF lastCall'.baseUrl = NoUrl THEN 0
                  ELSE findExisting(before, lastCall'.baseUrl, 1)
        IN  at # 0 =>
                /\ lastCall'.added = FALSE
                /\ lastCall'.source = before[at]
                /\ indexFile' = indexFile
                /\ defaultIndex' = defaultIndex ]_vars

\* C2 witness: a call on a registry of two entries returned the second one,
\* which carries the name given when it was first added.
C2_Witness ==
    /\ Len(indexFile.sources) = 2
    /\ lastCall.baseUrl # NoUrl
    /\ ~lastCall.added
    /\ lastCall.source = indexFile.sources[2]
    /\ lastCall.source.name = "Met Museum"

(***************************************************************************)
(* Collection traversal (scraper.ts).                                      *)
(*                                                                         *)
(* URLs are token sequences; a detail URL is the number n of the page it   *)
(* names.  An anchor's attribute value is n (an href that resolves to      *)
(* detail URL n), 0 (no or empty attribute) or -1 (an href new URL()       *)
(* rejects).  An absent optional array or string is the empty sequence:    *)
(* the code treats both alike.                                             *)
(***************************************************************************)
\* traversal.maxItems ?? 8
DEFAULT_MAX_ITEMS == 8

maxItemsOf(traversal) ==
    IF traversal.maxItems = NoNum THEN DEFAULT_MAX_ITEMS ELSE traversal.maxItems[1]

\* encodeURIComponent(term.trim())
encodeTerm(term) ==
    CASE term = " silk " -> "silk"
      [] OTHER -> term

\* template.replace("{query}", encoded): the first placeholder is replaced.
replaceQuery(template, encoded) ==
    LET at == FirstIn(template, {"{query}"}, 1)
    IN  IF at = 0 THEN template ELSE [template EXCEPT ![at] = encoded]

\* A buildListingUrls whose fallback pushes the base URL twice.
buildListingUrls_FallbackTwice(traversal, fallbackBase) ==
    LET static == traversal.listingUrls
        templated ==
            IF traversal.searchUrlTemplate # <<>> /\ Len(traversal.searchTerms) > 0
            THEN [i \in 1..Len(traversal.searchTerms) |->
                    replaceQuery(traversal.searchUrlTemplate,
                                 encodeTerm(traversal.searchTerms[i]))]
            ELSE <<>>
        urls == static \o templated
    IN  IF Len(urls) = 0 THEN <<fallbackBase, fallbackBase>> ELSE urls

\* buildListingUrls: the static list, then one URL per search term, and the
\* base URL when there is neither.
buildListingUrls(traversal, fallbackBase) ==
    LET static == traversal.listingUrls
        templated ==
            IF traversal.searchUrlTemplate # <<>> /\ Len(traversal.searchTerms) > 0
            THEN [i \in 1..Len(traversal.searchTerms) |->
                    replaceQuery(traversal.searchUrlTemplate,
                                 encodeTerm(traversal.searchTerms[i]))]
            ELSE <<>>
        urls == static \o templated
    IN  IF Len(urls) = 0 THEN <<fallbackBase>> ELSE urls

\* resolveUrl: new URL(maybeRelative, base).toString(), or maybeRelative itself
\* when new URL throws.
resolveUrl(base, maybeRelative) == maybeRelative

\* entry.url === absolute for some collected entry
hasLink(links, absolute) == \E i \in 1..Len(links) : links[i].url = absolute

\* A link collection without the test for an entry already collected.
RECURSIVE collectLinks_NoDedup(_, _, _, _, _)
collectLinks_NoDedup(anchors, i, links, listingUrl, cap) ==
    IF i > Len(anchors) THEN links
    ELSE IF Len(links) >= cap THEN links
    ELSE LET raw == anchors[i]
             absolute == resolveUrl(listingUrl, raw)
         IN  IF raw = 0
             THEN collectLinks_NoDedup(anchors, i + 1, links, listingUrl, cap)
             ELSE collectLinks_NoDedup(anchors, i + 1,
                      Append(links, [url |-> absolute, listing |-> listingUrl]),
                      listingUrl, cap)

\* Mutant: the cap is tested after a page only, not before each link.
RECURSIVE collectLinks_NoCapInLoop(_, _, _, _, _)
collectLinks_NoCapInLoop(anchors, i, links, listingUrl, cap) ==
    IF i > Len(anchors) THEN links
    ELSE LET raw == anchors[i]
             absolute == resolveUrl(listingUrl, raw)
         IN  IF raw = 0 \/ hasLink(links, absolute)
             THEN collectLinks_NoCapInLoop(anchors, i + 1, links, listingUrl, cap)
             ELSE collectLinks_NoCapInLoop(anchors, i + 1,
                      Append(links, [url |-> absolute, listing |-> listingUrl]),
                      listingUrl, cap)

\* $(selector).each(...): the callback over the matched anchors, from the
\* i-th on, with the links collected so far.
RECURSIVE collectLinks(_, _, _, _, _)
collectLinks(anchors, i, links, listingUrl, cap) ==
    IF i > Len(anchors) THEN links
    ELSE IF Len(links) >= cap THEN links
    ELSE LET raw == anchors[i]
             absolute == resolveUrl(listingUrl, raw)
         IN  IF raw = 0 \/ hasLink(links, absolute)
             THEN collectLinks(anchors, i + 1, links, listingUrl, cap)
             ELSE collectLinks(anchors, i + 1,
                      Append(links, [url |-> absolute, listing |-> listingUrl]),
                      listingUrl, cap)

\* parseHtml: the fields of the artifact that the traversal decides.
parseHtml(targetUrl, extraMetadata) ==
    [url |-> targetUrl, metadata |-> extraMetadata]

\* Listing pages: the anchors matched by the selector are a run of links
\* first .. first + count - 1, as such or preceded by an anchor without the
\* attribute, preceded by an unparsable href, or followed by a repeat of the
\* first link; and one long page with one link more than the default cap.
Run(first, count) == [i \in 1..count |-> first + i - 1]

ShortRuns ==
    {Run(f, c) : <<f, c>> \in {x \in (1..MaxLink) \X (1..MaxAnchors) :
                                  x[1] + x[2] - 1 <= MaxLink}}

Pages ==
    {<<>>, Run(1, DEFAULT_MAX_ITEMS + 1)} \cup
    UNION { {r, <<0>> \o r, <<-1>> \o r, r \o <<r[1]>>} : r \in ShortRuns }

PageLinks(page) == {page[i] : i \in 1..Len(page)} \ {0}

Collections ==
    [ listingUrls : {<<>>, << <<"L1">> >>, << <<"L1">>, <<"L2">> >>},
      searchUrlTemplate : {<<>>, <<"S?q=", "{query}">>},
      searchTerms : {<<>>, <<" silk ">>, <<" silk ", "jade">>},
      maxItems : {NoNum, <<1>>, <<2>>} ]

TravSources ==
    {[baseUrl |-> <<"B">>, collection |-> c] : c \in Collections \cup {NoCollection}}

hasCollection(source) == source.collection # NoCollection

listingUrlsOf(source) == buildListingUrls(source.collection, source.baseUrl)

capOf(source) == maxItemsOf(source.collection)

TraversalInit ==
    /\ RegistryIdle
    /\ GateIdle
    /\ DriverIdle
    /\ NodeIdle
    /\ Cc0Idle
    /\ ServicesIdle
    /\ tSource \in TravSources
    /\ tPc = IF hasCollection(tSource) THEN "listing" ELSE "single"
    /\ tIdx = 1
    /\ detailLinks = <<>>
    /\ artifacts = <<>>
    /\ listingFetches = <<>>
    /\ detailFetches = <<>>
    /\ offered = {}
    /\ fetchFailures = 0

\* scrapeSource without a collection: one fetch of the base URL.
ScrapeSingle ==
    /\ tPc = "single"
    /\ detailFetches' = Append(detailFetches, tSource.baseUrl)
    /\ \/ /\ fetchFailures < MaxFailures
          /\ fetchFailures' = fetchFailures + 1
          /\ artifacts' = <<>>
       \/ /\ artifacts' = <<parseHtml(tSource.baseUrl, [listingUrl |-> NoUrl])>>
          /\ UNCHANGED fetchFailures
    /\ tPc' = "done"
    /\ UNCHANGED <<regVars, gateVars, cc0Vars, svcVars, drvVars, nodeVars, tSource, tIdx, detailLinks, listingFetches, offered>>

\* An end of the listing iteration without the break on the cap.
AfterListing_NoBreak(links) ==
    IF tIdx < Len(listingUrlsOf(tSource))
    THEN /\ tPc' = "listing"
         /\ tIdx' = tIdx + 1
    ELSE /\ tPc' = IF Len(links) = 0 THEN "done" ELSE "detail"
         /\ tIdx' = 1

\* After a listing page: the break on the cap, the end of the listing loop and
\* the early return when no link was collected.
AfterListing(links) ==
    IF Len(links) < capOf(tSource) /\ tIdx < Len(listingUrlsOf(tSource))
    THEN /\ tPc' = "listing"
         /\ tIdx' = tIdx + 1
    ELSE /\ tPc' = IF Len(links) = 0 THEN "done" ELSE "detail"
         /\ tIdx' = 1

\* One iteration of the listing loop: fetchHtml(listingUrl), then the
\* synchronous link collection over the page.
FetchListing ==
    /\ tPc = "listing"
    /\ LET listingUrl == listingUrlsOf(tSource)[tIdx]
       IN  /\ listingFetches' = Append(listingFetches, listingUrl)
           /\ \/ /\ fetchFailures < MaxFailures
                 /\ fetchFailures' = fetchFailures + 1
                 /\ UNCHANGED <<detailLinks, offered>>
                 /\ AfterListing(detailLinks)
              \/ \E page \in Pages :
                    LET links == collectLinks(page, 1, detailLinks, listingUrl,
                                              capOf(tSource))
                    IN  /\ detailLinks' = links
                        /\ offered' = offered \cup PageLinks(page)
                        /\ AfterListing(links)
                        /\ UNCHANGED fetchFailures
    /\ UNCHANGED <<regVars, gateVars, cc0Vars, svcVars, drvVars, nodeVars, tSource, artifacts, detailFetches>>

\* Mutant: a detail page that cannot be fetched ends the traversal.
detailIteration_AbortOnFailure(arts, link, fetched) ==
    [artifacts |-> IF fetched
                   THEN Append(arts, parseHtml(link.url, [listingUrl |-> link.listing]))
                   ELSE arts,
     aborted |-> ~fetched]

\* The body of the detail loop after the fetch: if (!html) continue; otherwise
\* the parsed artifact is pushed.
detailIteration(arts, link, fetched) ==
    [artifacts |-> IF fetched
                   THEN Append(arts, parseHtml(link.url, [listingUrl |-> link.listing]))
                   ELSE arts,
     aborted |-> FALSE]

\* One iteration of the detail loop: fetchHtml(link.url), then parseHtml.
FetchDetail ==
    /\ tPc = "detail"
    /\ LET link == detailLinks[tIdx]
       IN  /\ detailFetches' = Append(detailFetches, link.url)
           /\ \E fetched \in BOOLEAN :
                 LET out == detailIteration(artifacts, link, fetched)
                 IN  /\ ~fetched => fetchFailures < MaxFailures
                     /\ fetchFailures' = IF fetched THEN fetchFailures ELSE fetchFailures + 1
                     /\ artifacts' = out.artifacts
                     /\ IF ~out.aborted /\ tIdx < Len(detailLinks)
                        THEN tIdx' = tIdx + 1 /\ tPc' = "detail"
                        ELSE tIdx' = 1 /\ tPc' = "done"
    /\ UNCHANGED <<regVars, gateVars, cc0Vars, svcVars, drvVars, nodeVars, tSource, detailLinks, listingFetches, offered>>

TraversalNext == ScrapeSingle \/ FetchListing \/ FetchDetail

TraversalSpec == TraversalInit /\ [][TraversalNext]_vars

(***************************************************************************)
(* Traversal claims.                                                       *)
(***************************************************************************)
\* C3: in a collection traversal the collected links never exceed maxItems
\* (default 8); once link collection is over, exactly maxItems links are
\* collected whenever the fetched listing pages offered at least maxItems
\* distinct links; and the detail phase fetches the collected links, one fetch
\* each.
C3_CapEnforced ==
    hasCollection(tSource) =>
        /\ Len(detailLinks) <= capOf(tSource)
        /\ (tPc \in {"detail", "done"} /\ Cardinality(offered) >= capOf(tSource))
              => Len(detailLinks) = capOf(tSource)
        /\ Len(detailFetches) <= Len(detailLinks)
        /\ \A i \in 1..Len(detailFetches) : detailFetches[i] = detailLinks[i].url
        /\ tPc = "done" => Len(detailFetches) = Len(detailLinks)

\* C3 witness: maxItems = 2, one listing page fetched that offers 5 distinct
\* links; 2 links collected and 2 detail fetches made.
C3_Witness ==
    /\ hasCollection(tSource)
    /\ tSource.collection.maxItems = <<2>>
    /\ Len(listingFetches) = 1
    /\ Cardinality(offered) = 5
    /\ tPc = "done"
    /\ Len(detailLinks) = 2
    /\ Len(detailFetches) = 2

\* C3 witness for the default: no maxItems, more than 8 links offered, 8 fetched.
C3_WitnessDefault ==
    /\ hasCollection(tSource)
    /\ tSource.collection.maxItems = NoNum
    /\ Cardinality(offered) > DEFAULT_MAX_ITEMS
    /\ tPc = "done"
    /\ Len(detailFetches) = DEFAULT_MAX_ITEMS

(***************************************************************************)
(* Relevance gate (llama.ts).                                              *)
(*                                                                         *)
(* The classifier's response text is a sequence of tokens: "{" and "}",    *)
(* "r" for the member "verdict":"reject", "h" for "verdict":"historical",  *)
(* and "x" for a run of prose.  A nested pair of braces inside an object   *)
(* stands for a member whose value is an object.                           *)
(***************************************************************************)
RespToks == {"{", "}", "r", "h", "x"}

Responses(n) == SeqsUpTo(RespToks, n)

\* text.indexOf(tok), 1-based; 0 for -1.
indexOf(text, tok) == FirstIn(text, {tok}, 1)

\* text.lastIndexOf(tok), 1-based; 0 for -1.
RECURSIVE lastIndexFrom(_, _, _)
lastIndexFrom(text, tok, i) ==
    IF i = 0 THEN 0
    ELSE IF text[i] = tok THEN i
    ELSE lastIndexFrom(text, tok, i - 1)

lastIndexOf(text, tok) == lastIndexFrom(text, tok, Len(text))

NoBlock == <<>>

\* extractJsonBlock: from the first "{" to the last "}", or null.
extractJsonBlock(text) ==
    LET start == indexOf(text, "{")
        end == lastIndexOf(text, "}")
    IN  IF start = 0 \/ end = 0 \/ end <= start THEN NoBlock
        ELSE SubSeq(text, start, end)

\* Brace depth after the first i tokens of a block.
RECURSIVE depthAt(_, _)
depthAt(block, i) ==
    IF i = 0 THEN 0
    ELSE depthAt(block, i - 1)
         + (IF block[i] = "{" THEN 1 ELSE IF block[i] = "}" THEN -1 ELSE 0)

\* JSON.parse(jsonBlock) succeeds: one object, braces matched, no prose.
jsonParses(block) ==
    /\ Len(block) >= 2
    /\ block[1] = "{"
    /\ \A i \in 1..Len(block) : block[i] # "x"
    /\ \A i \in 1..(Len(block) - 1) : depthAt(block, i) > 0
    /\ depthAt(block, Len(block)) = 0

\* The verdict member of the parsed object: the last one at top level wins.
RECURSIVE verdictFrom(_, _)
verdictFrom(block, i) ==
    IF i = 0 THEN NoVal
    ELSE IF block[i] \in {"r", "h"} /\ depthAt(block, i) = 1
         THEN (IF block[i] = "r" THEN "reject" ELSE "historical")
    ELSE verdictFrom(block, i - 1)

jsonParse(block) == [verdict |-> verdictFrom(block, Len(block))]

\* The exchanges with the classifier: fetch rejects, a non-2xx status, a body
\* that is not JSON, or a JSON body whose response field is the text raw.
Exchanges(n) ==
    {[kind |-> k, raw |-> <<>>] : k \in {"error", "non2xx", "badjson"}}
    \cup {[kind |-> "ok", raw |-> t] : t \in Responses(n)}

\* Mutant: no try/catch, so a failed request or a non-2xx status propagates.
classifyArtifactWithLlama_NoCatch(exchange) ==
    IF exchange.kind # "ok"
    THEN [threw |-> TRUE, value |-> NoAssessment]
    ELSE LET jsonBlock == extractJsonBlock(exchange.raw)
         IN  IF jsonBlock = NoBlock \/ ~jsonParses(jsonBlock)
             THEN [threw |-> TRUE, value |-> NoAssessment]
             ELSE [threw |-> FALSE, value |-> jsonParse(jsonBlock)]

\* classifyArtifactWithLlama: [threw, value]; the whole body is inside try/catch.
classifyArtifactWithLlama(exchange) ==
    IF exchange.kind # "ok"
    THEN [threw |-> FALSE, value |-> NoAssessment]
    ELSE LET jsonBlock == extractJsonBlock(exchange.raw)
         IN  IF jsonBlock = NoBlock \/ ~jsonParses(jsonBlock)
             THEN [threw |-> FALSE, value |-> NoAssessment]
             ELSE [threw |-> FALSE, value |-> jsonParse(jsonBlock)]

GateInit ==
    /\ RegistryIdle
    /\ TraversalIdle
    /\ DriverIdle
    /\ NodeIdle
    /\ Cc0Idle
    /\ ServicesIdle
    /\ gExchange \in Exchanges(MaxResp)
    /\ gResult = [called |-> FALSE, threw |-> FALSE, value |-> NoAssessment]

Classify ==
    /\ ~gResult.called
    /\ LET out == classifyArtifactWithLlama(gExchange)
       IN  gResult' = [called |-> TRUE, threw |-> out.threw, value |-> out.value]
    /\ UNCHANGED <<regVars, travVars, cc0Vars, svcVars, drvVars, nodeVars, gExchange>>

GateNext == Classify

GateSpec == GateInit /\ [][GateNext]_vars

(***************************************************************************)
(* Gate claims.                                                            *)
(***************************************************************************)
\* Position of the brace that closes the one at position i, or 0.
RECURSIVE closeOf(_, _, _, _)
closeOf(text, i, j, depth) ==
    IF j > Len(text) THEN 0
    ELSE LET d == depth + (IF text[j] = "{" THEN 1
                           ELSE IF text[j] = "}" THEN -1 ELSE 0)
         IN  IF d = 0 THEN j ELSE closeOf(text, i, j + 1, d)

\* The first balanced {...} substring of the text, or NoBlock.
RECURSIVE firstBalancedFrom(_, _)
firstBalancedFrom(text, i) ==
    IF i > Len(text) THEN NoBlock
    ELSE IF text[i] = "{" /\ closeOf(text, i, i, 0) # 0
         THEN SubSeq(text, i, closeOf(text, i, i, 0))
    ELSE firstBalancedFrom(text, i + 1)

FirstBalanced(text) == firstBalancedFrom(text, 1)

\* C6: for every response text the gate returns the parse of the first
\* balanced {...} substring, whatever surrounds it, and returns no assessment
\* only when there is no balanced substring or that substring does not parse.
C6_FirstBalancedBlock ==
    (gResult.called /\ gExchange.kind = "ok") =>
        LET block == FirstBalanced(gExchange.raw)
        IN  gResult.value = IF block # NoBlock /\ jsonParses(block)
                            THEN jsonParse(block)
                            ELSE NoAssessment

(***************************************************************************)
(* processSources (node CLI): the pass over the resolved sources.  One     *)
(* action per await of the function; cur is the artifact of the inner      *)
(* loop, with the steps taken for it so far.                               *)
(***************************************************************************)
ArtifactUrls == { [scheme |-> "https://", host |-> "a.org", tail |-> <<"/", "p">>] }

\* What scrapeSource returns, as far as processSources reads it.
ScrapedArtifacts == [url : ArtifactUrls, isLikelyCc0 : BOOLEAN]

ArtifactLists == SeqsUpTo(ScrapedArtifacts, MaxArtifacts)

RunOptions ==
    [llamaEnabled : BOOLEAN, dryRun : BOOLEAN, appendArtifactsToIndex : BOOLEAN,
     cooldown : BOOLEAN, maxSources : {NoNum, <<1>>}]

\* Mutant: the last maxSources sources instead of the first.
sliceOf_Tail(sources, options) ==
    IF options.maxSources = NoNum THEN sources
    ELSE SubSeq(sources,
                (IF options.maxSources[1] < Len(sources)
                 THEN Len(sources) - options.maxSources[1] ELSE 0) + 1,
                Len(sources))

\* sources.slice(0, maxSources) when maxSources is a number.
sliceOf(sources, options) ==
    IF options.maxSources = NoNum THEN sources
    ELSE SubSeq(sources, 1, IF options.maxSources[1] < Len(sources)
                            THEN options.maxSources[1] ELSE Len(sources))

\* The text contains a "{" with a "}" somewhere after it.
hasBracePair(text) ==
    \E i \in 1..Len(text) : \E j \in (i + 1)..Len(text) :
        text[i] = "{" /\ text[j] = "}"

\* Mutant: a reject verdict is recorded but the artifact is not skipped.
applyVerdict_NoSkip(artifact, llamaVerdict) ==
    IF llamaVerdict = NoAssessment
    THEN [artifact |-> artifact, skip |-> FALSE]
    ELSE [artifact |-> [artifact EXCEPT !.llamaAssessment = llamaVerdict,
                                        !.metadataLlama = llamaVerdict],
          skip |-> FALSE]

\* if (llamaVerdict) { artifact.llamaAssessment = ...; artifact.metadata = ...;
\* if (llamaVerdict.verdict === "reject") continue; }
applyVerdict(artifact, llamaVerdict) ==
    IF llamaVerdict = NoAssessment
    THEN [artifact |-> artifact, skip |-> FALSE]
    ELSE [artifact |-> [artifact EXCEPT !.llamaAssessment = llamaVerdict,
                                        !.metadataLlama = llamaVerdict],
          skip |-> llamaVerdict.verdict = "reject"]

\* MasterClient.submit: the body of the POST.
payloadOf(artifact) ==
    [url |-> artifact.url,
     metadata |-> [llamaAssessment |-> artifact.metadataLlama],
     llamaAssessment |-> artifact.llamaAssessment]

\* appendArtifactToIndex: the options it hands to addSourceToIndex.
appendOpts ==
    [name |-> "Met Museum: title", type |-> NoVal,
     notes |-> "Auto-discovered via Met Museum", priority |-> NoNum]

DriverInit ==
    /\ RegistryIdle
    /\ TraversalIdle
    /\ GateIdle
    /\ NodeIdle
    /\ Cc0Idle
    /\ ServicesIdle
    /\ dOpts \in RunOptions
    /\ dSources \in {<<"s1">>, <<"s1", "s2">>}
    /\ dSrcIdx = 1
    /\ dArtifacts = <<>>
    /\ dArtIdx = 1
    /\ dPc = "scrape"
    /\ cur = NoArtifact

\* The end of one iteration of the loop over the sources.
NextSource ==
    /\ dSrcIdx' = dSrcIdx + 1
    /\ dArtifacts' = <<>>
    /\ dArtIdx' = 1
    /\ dPc' = IF dSrcIdx + 1 <= Len(sliceOf(dSources, dOpts)) THEN "scrape" ELSE "done"

\* The end of one iteration of the loop over the artifacts.
NextArtifact ==
    IF dArtIdx < Len(dArtifacts)
    THEN /\ dArtIdx' = dArtIdx + 1
         /\ dPc' = "artifact"
         /\ UNCHANGED <<dSrcIdx, dArtifacts>>
    ELSE NextSource

\* const artifacts = await scrapeSource(source); an empty result cools down
\* and continues with the next source.
DrvScrape ==
    /\ dPc = "scrape"
    /\ \E arts \in ArtifactLists :
          IF arts = <<>>
          THEN NextSource
          ELSE /\ dArtifacts' = arts
               /\ dArtIdx' = 1
               /\ dPc' = "artifact"
               /\ UNCHANGED dSrcIdx
    /\ UNCHANGED <<regVars, travVars, gateVars, cc0Vars, svcVars, nodeVars, dOpts, dSources, cur>>

\* Mutant: the head of the inner loop without the CC0 check.
DrvArtifact_NoCc0Check ==
    /\ dPc = "artifact"
    /\ LET a == dArtifacts[dArtIdx]
       IN  /\ cur' = [NoArtifact EXCEPT !.url = a.url, !.isLikelyCc0 = a.isLikelyCc0]
           /\ dPc' = IF dOpts.llamaEnabled THEN "classify" ELSE "submit"
           /\ UNCHANGED <<dSrcIdx, dArtifacts, dArtIdx>>
    /\ UNCHANGED <<regVars, travVars, gateVars, cc0Vars, svcVars, nodeVars, dOpts, dSources>>

\* The head of the inner loop: the CC0 check, up to the first await.
DrvArtifact ==
    /\ dPc = "artifact"
    /\ LET a == dArtifacts[dArtIdx]
       IN  /\ cur' = [NoArtifact EXCEPT !.url = a.url, !.isLikelyCc0 = a.isLikelyCc0]
           /\ IF ~a.isLikelyCc0
              THEN NextArtifact
              ELSE /\ dPc' = IF dOpts.llamaEnabled THEN "classify" ELSE "submit"
                   /\ UNCHANGED <<dSrcIdx, dArtifacts, dArtIdx>>
    /\ UNCHANGED <<regVars, travVars, gateVars, cc0Vars, svcVars, nodeVars, dOpts, dSources>>

\* await classifyArtifactWithLlama(...) and the handling of its verdict.
DrvClassify ==
    /\ dPc = "classify"
    /\ \E exchange \in Exchanges(MaxDriverResp) :
          LET out == classifyArtifactWithLlama(exchange)
              seen == [cur EXCEPT !.exchange = exchange.kind,
                                  !.bracePair = hasBracePair(exchange.raw),
                                  !.steps = Append(@, "classify")]
          IN  IF out.threw
              THEN /\ cur' = seen
                   /\ dPc' = "crashed"
                   /\ UNCHANGED <<dSrcIdx, dArtifacts, dArtIdx>>
              ELSE LET applied == applyVerdict(seen, out.value)
                   IN  /\ cur' = applied.artifact
                       /\ IF applied.skip
                          THEN NextArtifact
                          ELSE /\ dPc' = "submit"
                               /\ UNCHANGED <<dSrcIdx, dArtifacts, dArtIdx>>
    /\ UNCHANGED <<regVars, travVars, gateVars, cc0Vars, svcVars, nodeVars, dOpts, dSources>>

\* What the ingest endpoint does with a POST.
IngestResponses == {"ok", "non2xx", "error"}

\* MasterClient.submit: the POST is sent; a request error and a non-2xx
\* response are thrown.
submit(artifact, response) ==
    [posted |-> payloadOf(artifact), threw |-> response # "ok"]

\* Mutant: the call of client.submit without the try/catch around it.
submitCaught_NoCatch(artifact, response) ==
    LET out == submit(artifact, response)
    IN  [artifact |-> [artifact EXCEPT !.posted = out.posted,
                                       !.steps = Append(@, IF out.threw THEN "submit-failed"
                                                           ELSE "submitted")],
         crashed |-> out.threw]

\* try { await client.submit(artifact); } catch (error) { logger.error(...) }
submitCaught(artifact, response) ==
    LET out == submit(artifact, response)
    IN  [artifact |-> [artifact EXCEPT !.posted = out.posted,
                                       !.steps = Append(@, IF out.threw THEN "submit-failed"
                                                           ELSE "submitted")],
         crashed |-> FALSE]

\* A submit step that posts whatever options.dryRun says.
DrvSubmit_IgnoresDryRun ==
    /\ dPc = "submit"
    /\ \E response \in IngestResponses :
          LET out == submitCaught(cur, response)
          IN  /\ cur' = out.artifact
              /\ dPc' = IF dOpts.appendArtifactsToIndex THEN "append" ELSE "cooldown"
    /\ UNCHANGED <<regVars, travVars, gateVars, cc0Vars, svcVars, nodeVars, dOpts, dSources, dSrcIdx, dArtifacts, dArtIdx>>

\* The dry-run log, or await client.submit(artifact) with its failure caught.
DrvSubmit ==
    /\ dPc = "submit"
    /\ IF dOpts.dryRun
       THEN /\ cur' = [cur EXCEPT !.steps = Append(@, "dryrun")]
            /\ dPc' = IF dOpts.appendArtifactsToIndex THEN "append" ELSE "cooldown"
       ELSE \E response \in IngestResponses :
               LET out == submitCaught(cur, response)
               IN  /\ cur' = out.artifact
                   /\ dPc' = IF out.crashed THEN "crashed"
                             ELSE IF dOpts.appendArtifactsToIndex THEN "append"
                             ELSE "cooldown"
    /\ UNCHANGED <<regVars, travVars, gateVars, cc0Vars, svcVars, nodeVars, dOpts, dSources, dSrcIdx, dArtifacts, dArtIdx>>

\* access(absolutePath) in ensureIndexFile: the file is there or ENOENT
\* ("ok"), or another error such as EACCES, which ensureIndexFile rethrows.
AccessOutcomes == {"ok", "EACCES"}

\* appendArtifactToIndex: addSourceToIndex with the artifact's URL and name;
\* a rethrown access error rejects the call before anything is written.
appendArtifactToIndex(file, dflt, url, rnd, io) ==
    IF io # "ok" /\ ~UrlThrows(url)
    THEN [threw |-> TRUE, added |-> FALSE, source |-> NoSource,
          baseUrl |-> NoUrl, file |-> file, dflt |-> dflt]
    ELSE addSourceToIndex(file, dflt, url, appendOpts, rnd)

\* Mutant: the call of appendArtifactToIndex without the try/catch around it.
DrvAppend_NoCatch ==
    /\ dPc = "append"
    /\ \E rnd \in Rnd, io \in AccessOutcomes :
          LET out == appendArtifactToIndex(indexFile, defaultIndex, cur.url, rnd, io)
          IN  /\ indexFile' = out.file
              /\ defaultIndex' = out.dflt
              /\ cur' = [cur EXCEPT !.steps =
                            Append(@, IF out.threw THEN "append-failed"
                                      ELSE IF out.added THEN "appended"
                                      ELSE "append-existing")]
              /\ dPc' = IF out.threw THEN "crashed" ELSE "cooldown"
    /\ UNCHANGED <<lastCall, rProc, travVars, gateVars, cc0Vars, svcVars, nodeVars, dOpts, dSources, dSrcIdx, dArtifacts, dArtIdx>>

\* await appendArtifactToIndex(...), with its failure caught.
DrvAppend ==
    /\ dPc = "append"
    /\ \E rnd \in Rnd, io \in AccessOutcomes :
          LET out == appendArtifactToIndex(indexFile, defaultIndex, cur.url, rnd, io)
          IN  /\ indexFile' = out.file
              /\ defaultIndex' = out.dflt
              /\ cur' = [cur EXCEPT !.steps =
                            Append(@, IF out.threw THEN "append-failed"
                                      ELSE IF out.added THEN "appended"
                                      ELSE "append-existing")]
    /\ dPc' = "cooldown"
    /\ UNCHANGED <<lastCall, rProc, travVars, gateVars, cc0Vars, svcVars, nodeVars, dOpts, dSources, dSrcIdx, dArtifacts, dArtIdx>>

\* await maybeCooldown(options), then the next artifact.
DrvCooldown ==
    /\ dPc = "cooldown"
    /\ cur' = IF dOpts.cooldown THEN [cur EXCEPT !.steps = Append(@, "cooldown")] ELSE cur
    /\ NextArtifact
    /\ UNCHANGED <<regVars, travVars, gateVars, cc0Vars, svcVars, nodeVars, dOpts, dSources>>

DriverNext ==
    \/ DrvScrape
    \/ DrvArtifact
    \/ DrvClassify
    \/ DrvSubmit
    \/ DrvAppend
    \/ DrvCooldown

DriverSpec == DriverInit /\ [][DriverNext]_vars

(***************************************************************************)
(* Driver claims.                                                          *)
(***************************************************************************)
\* The classifier was asked about the current artifact.
Classified == \E i \in 1..Len(cur.steps) : cur.steps[i] = "classify"

\* The submission step was taken for the current artifact.
SubmissionTaken ==
    \E i \in 1..Len(cur.steps) : cur.steps[i] \in {"dryrun", "submitted", "submit-failed"}

\* The three failures of the classifier that C4 names.
GateFailed ==
    \/ cur.exchange \in {"non2xx", "error"}
    \/ cur.exchange = "ok" /\ ~cur.bracePair

\* C4: when the classifier answers non-2xx, the request fails, or the response
\* text has no {...} pair, classify returns no assessment without raising and
\* the driver reaches the submission step for that artifact.
C4_FailOpen ==
    (Classified /\ GateFailed) =>
        /\ dPc # "crashed"
        /\ cur.llamaAssessment = NoAssessment
        /\ dPc = "submit" \/ SubmissionTaken

\* C4 witness: a gate failure of each kind followed by a POST of the artifact.
C4_Witness ==
    /\ Classified
    /\ cur.exchange = "error"
    /\ cur.posted # NoPayload

C4_WitnessNoBraces ==
    /\ Classified
    /\ cur.exchange = "ok"
    /\ ~cur.bracePair
    /\ cur.posted # NoPayload

\* C5: an artifact the gate rejects is never submitted in the pass; for every
\* other gate outcome the driver proceeds to submission, and an assessment
\* that is present is in the metadata of what is submitted.
C5_RejectSkipsOthersProceed ==
    Classified =>
        IF cur.llamaAssessment # NoAssessment /\ cur.llamaAssessment.verdict = "reject"
        THEN cur.posted = NoPayload /\ ~SubmissionTaken /\ dPc # "submit"
        ELSE /\ dPc = "submit" \/ SubmissionTaken
             /\ dPc = "submit" => cur.metadataLlama = cur.llamaAssessment
             /\ cur.posted # NoPayload =>
                    cur.posted.metadata.llamaAssessment = cur.llamaAssessment

\* C5 witnesses: a rejected artifact passed over, and an accepted one posted
\* with its assessment in the metadata.
C5_WitnessReject ==
    /\ Classified
    /\ cur.llamaAssessment # NoAssessment
    /\ cur.llamaAssessment.verdict = "reject"
    /\ dPc \in {"artifact", "scrape", "done"}

C5_WitnessAccept ==
    /\ Classified
    /\ cur.llamaAssessment # NoAssessment
    /\ cur.llamaAssessment.verdict = "historical"
    /\ cur.posted # NoPayload
    /\ cur.posted.metadata.llamaAssessment.verdict = "historical"

(***************************************************************************)
(* Source lists (config.ts).  A URL string of a source list is one token;  *)
(* z.string().url() accepts the tokens that new URL() parses.              *)
(***************************************************************************)
isUrl(str) == str \in {"https://a.org", "https://b.org", "https://a.org/list"}

minOne(str) == str # NoVal /\ str # ""

\* CollectionSchema: the object schema followed by the refinement.
CollectionSchema(value) ==
    /\ \A i \in 1..Len(value.listingUrls) : isUrl(value.listingUrls[i])
    /\ value.searchUrlTemplate # NoVal => isUrl(value.searchUrlTemplate)
    /\ \A i \in 1..Len(value.searchTerms) : minOne(value.searchTerms[i])
    /\ LET hasListings == Len(value.listingUrls) > 0
           hasSearchTemplate == value.searchUrlTemplate # NoVal /\ Len(value.searchTerms) > 0
       IN  hasListings \/ hasSearchTemplate

SourceSchema(entry) ==
    /\ minOne(entry.id)
    /\ minOne(entry.name)
    /\ entry.baseUrl # NoVal /\ isUrl(entry.baseUrl)
    /\ entry.collection # NoCollection => CollectionSchema(entry.collection)

ConfigSchema(json) ==
    /\ Len(json) >= 1
    /\ \A i \in 1..Len(json) : SourceSchema(json[i])

\* The entries a local file may list: one that is valid, one with a valid
\* collection, and one for each way of failing the schema.
FileEntry(id, name, baseUrl, collection) ==
    [id |-> id, name |-> name, baseUrl |-> baseUrl, type |-> NoVal, collection |-> collection]

FileCollection(listingUrls, searchUrlTemplate, searchTerms) ==
    [listingUrls |-> listingUrls, searchUrlTemplate |-> searchUrlTemplate,
     searchTerms |-> searchTerms]

FileEntries ==
    { FileEntry("s1", "Met", "https://a.org", NoCollection),
      FileEntry("s2", "Rijks", "https://b.org",
                FileCollection(<<"https://a.org/list">>, NoVal, <<>>)),
      FileEntry(NoVal, "Met", "https://a.org", NoCollection),
      FileEntry("s1", "", "https://a.org", NoCollection),
      FileEntry("s1", "Met", "a.org", NoCollection),
      FileEntry("s1", "Met", "https://a.org",
                FileCollection(<<>>, "https://a.org/list", <<>>)) }

LocalFiles ==
    {[kind |-> k, sources |-> <<>>] : k \in {"missing", "badjson"}}
    \cup {[kind |-> "json", sources |-> srcs] : srcs \in SeqsUpTo(FileEntries, MaxFileSources)}

\* loadConfigFromFile: readFile, JSON.parse, ConfigSchema.parse (which fills
\* in the default of type).
loadConfigFromFile(localFile) ==
    IF localFile.kind # "json" \/ ~ConfigSchema(localFile.sources)
    THEN [threw |-> TRUE, sources |-> <<>>]
    ELSE [threw |-> FALSE,
          sources |-> [i \in 1..Len(localFile.sources) |->
                          [localFile.sources[i] EXCEPT !.type = "generic"]]]

\* String(n) for the ids the remote list uses.
String(n) == IF n = 7 THEN "7" ELSE "8"

RemoteItem(id, name, base_url, baseUrl) ==
    [id |-> id, name |-> name, base_url |-> base_url, baseUrl |-> baseUrl]

RemoteItems ==
    { RemoteItem(<<7>>, "Met", "https://a.org", NoVal),
      RemoteItem(NoNum, NoVal, NoVal, "https://b.org"),
      RemoteItem(NoNum, NoVal, "", "https://b.org") }

\* The exchanges with GET /sources: fetch rejects, a non-2xx status, a body
\* that is not JSON, or a JSON array.
Remotes ==
    {[kind |-> k, data |-> <<>>] : k \in {"error", "non2xx", "badjson"}}
    \cup {[kind |-> "ok", data |-> d] : d \in SeqsUpTo(RemoteItems, MaxRemote)}

\* item.base_url ?? item.baseUrl ?? ""
baseUrlOfItem(item) ==
    IF item.base_url # NoVal THEN item.base_url
    ELSE IF item.baseUrl # NoVal THEN item.baseUrl
    ELSE ""

normalizeItem(item, uuid) ==
    [id |-> IF item.id # NoNum THEN String(item.id[1])
            ELSE IF item.base_url # NoVal THEN item.base_url
            ELSE uuid,
     name |-> IF item.name # NoVal THEN item.name
              ELSE IF item.base_url # NoVal THEN item.base_url
              ELSE IF item.baseUrl # NoVal THEN item.baseUrl
              ELSE "Unknown Source",
     baseUrl |-> baseUrlOfItem(item),
     type |-> "generic"]

RECURSIVE filterBaseUrl(_)
filterBaseUrl(list) ==
    IF list = <<>> THEN <<>>
    ELSE (IF Head(list).baseUrl # "" THEN <<Head(list)>> ELSE <<>>)
         \o filterBaseUrl(Tail(list))

\* loadSourcesFromMaster: throws unless the endpoint answers 2xx with JSON.
loadSourcesFromMaster(remote, uuid) ==
    IF remote.kind # "ok"
    THEN [threw |-> TRUE, sources |-> <<>>]
    ELSE [threw |-> FALSE,
          sources |-> filterBaseUrl([i \in 1..Len(remote.data) |->
                                        normalizeItem(remote.data[i], uuid)])]

(***************************************************************************)
(* resolveSources (node CLI).                                              *)
(***************************************************************************)
targetOpts(options) ==
    [name |-> options.targetName, type |-> NoVal, notes |-> NoVal, priority |-> NoNum]

\* Mutant: the random flag is looked at before the target URL.
resolveSources_RandomFirst(options, file, dflt, localFile, remote, rnd, pick) ==
    IF options.randomFromGlobal
    THEN LET index == readIndex(file, dflt)
         IN  [threw |-> FALSE,
              sources |-> IF Len(index.sources) = 0 THEN <<>>
                          ELSE <<index.sources[pick]>>,
              file |-> index.file, dflt |-> dflt]
    ELSE IF options.targetUrl # NoTarget
    THEN LET out == addSourceToIndex(file, dflt, options.targetUrl, targetOpts(options), rnd)
         IN  [threw |-> out.threw,
              sources |-> IF out.threw THEN <<>> ELSE <<out.source>>,
              file |-> out.file, dflt |-> out.dflt]
    ELSE IF options.fetchRemoteSources \/ ~options.sourcesPath
    THEN LET out == loadSourcesFromMaster(remote, rnd)
         IN  [threw |-> out.threw, sources |-> out.sources, file |-> file, dflt |-> dflt]
    ELSE LET config == loadConfigFromFile(localFile)
             out == loadSourcesFromMaster(remote, rnd)
         IN  IF ~config.threw
             THEN [threw |-> FALSE, sources |-> config.sources, file |-> file, dflt |-> dflt]
             ELSE [threw |-> out.threw, sources |-> out.sources, file |-> file, dflt |-> dflt]

\* Mutant: a file that fails to load yields its entries that pass the schema.
resolveSources_KeepValid(options, file, dflt, localFile, remote, rnd, pick) ==
    IF options.targetUrl # NoTarget
    THEN LET out == addSourceToIndex(file, dflt, options.targetUrl, targetOpts(options), rnd)
         IN  [threw |-> out.threw,
              sources |-> IF out.threw THEN <<>> ELSE <<out.source>>,
              file |-> out.file, dflt |-> out.dflt]
    ELSE IF options.randomFromGlobal
    THEN LET index == readIndex(file, dflt)
         IN  [threw |-> FALSE,
              sources |-> IF Len(index.sources) = 0 THEN <<>>
                          ELSE <<index.sources[pick]>>,
              file |-> index.file, dflt |-> dflt]
    ELSE IF options.fetchRemoteSources \/ ~options.sourcesPath
    THEN LET out == loadSourcesFromMaster(remote, rnd)
         IN  [threw |-> out.threw, sources |-> out.sources, file |-> file, dflt |-> dflt]
    ELSE LET config == loadConfigFromFile(localFile)
             out == loadSourcesFromMaster(remote, rnd)
         IN  IF ~config.threw
             THEN [threw |-> FALSE, sources |-> config.sources, file |-> file, dflt |-> dflt]
             ELSE [threw |-> out.threw,
                   sources |-> SelectSeq(localFile.sources, SourceSchema) \o out.sources,
                   file |-> file, dflt |-> dflt]

\* resolveSources(options): [threw, sources] and the registry file after it.
\* pick is Math.floor(Math.random() * globalSources.length) + 1.
resolveSources(options, file, dflt, localFile, remote, rnd, pick) ==
    IF options.targetUrl # NoTarget
    THEN LET out == addSourceToIndex(file, dflt, options.targetUrl, targetOpts(options), rnd)
         IN  [threw |-> out.threw,
              sources |-> IF out.threw THEN <<>> ELSE <<out.source>>,
              file |-> out.file, dflt |-> out.dflt]
    ELSE IF options.randomFromGlobal
    THEN LET index == readIndex(file, dflt)
         IN  [threw |-> FALSE,
              sources |-> IF Len(index.sources) = 0 THEN <<>>
                          ELSE <<index.sources[pick]>>,
              file |-> index.file, dflt |-> dflt]
    ELSE IF options.fetchRemoteSources \/ ~options.sourcesPath
    THEN LET out == loadSourcesFromMaster(remote, rnd)
         IN  [threw |-> out.threw, sources |-> out.sources, file |-> file, dflt |-> dflt]
    ELSE LET config == loadConfigFromFile(localFile)
             out == loadSourcesFromMaster(remote, rnd)
         IN  IF ~config.threw
             THEN [threw |-> FALSE, sources |-> config.sources, file |-> file, dflt |-> dflt]
             ELSE [threw |-> out.threw, sources |-> out.sources, file |-> file, dflt |-> dflt]

\* The branches of resolveSources that read the local file and the remote list.
readsLocalFile(options) ==
    /\ options.targetUrl = NoTarget
    /\ ~options.randomFromGlobal
    /\ ~options.fetchRemoteSources
    /\ options.sourcesPath

readsRemote(options, localFile) ==
    /\ options.targetUrl = NoTarget
    /\ ~options.randomFromGlobal
    /\ (options.fetchRemoteSources \/ ~options.sourcesPath
        \/ loadConfigFromFile(localFile).threw)

\* The values --target-url takes: a URL written without a scheme, and a
\* scheme-relative URL.
TargetUrls ==
    { [scheme |-> "", host |-> "A.org", tail |-> <<"/", "p", "/">>],
      [scheme |-> "//", host |-> "a.org", tail |-> <<>>] }

ResolveOptions ==
    [targetUrl : {NoTarget} \cup TargetUrls, targetName : {NoVal},
     randomFromGlobal : BOOLEAN, fetchRemoteSources : BOOLEAN,
     sourcesPath : BOOLEAN, loop : {FALSE}]

\* Registry entries present before the run.
SeedEntries ==
    << newSource(normalizeUrl([scheme |-> "https://", host |-> "a.org", tail |-> <<"/", "p">>]),
                 AddOptsNone, "r1"),
       newSource(normalizeUrl([scheme |-> "https://", host |-> "a.org", tail |-> <<>>]),
                 AddOptsNone, "r2") >>

\* The indices Math.random can select in a list of n entries.
Picks(n) == IF n = 0 THEN {1} ELSE 1..n

ResolverInit ==
    /\ indexFile \in {FileWith(<<>>), FileWith(SeedEntries)}
    /\ defaultIndex = DEFAULT_INDEX
    /\ lastCall = NoCall
    /\ rProc = NoProcs
    /\ TraversalIdle
    /\ GateIdle
    /\ DriverIdle
    /\ nOpts \in ResolveOptions
    /\ nFile \in LocalFiles
    /\ nRemote \in Remotes
    /\ nResult = [outcome |-> "none", sources |-> <<>>]
    /\ nPc = "stopped"
    /\ keepRunning = TRUE
    /\ exitCode = 0
    /\ silent = {}
    /\ Cc0Idle
    /\ ServicesIdle

\* One call of resolveSources(options).
ResolveSources ==
    /\ nResult.outcome = "none"
    /\ \E rnd \in Rnd :
       \E pick \in Picks(Len(readIndex(indexFile, defaultIndex).sources)) :
          LET out == resolveSources(nOpts, indexFile, defaultIndex, nFile, nRemote, rnd, pick)
          IN  /\ nResult' = [outcome |-> IF out.threw THEN "threw" ELSE "returned",
                             sources |-> out.sources]
              /\ indexFile' = out.file
              /\ defaultIndex' = out.dflt
    /\ UNCHANGED <<lastCall, rProc, travVars, gateVars, cc0Vars, svcVars, drvVars, nOpts, silent, nFile, nRemote, nPc,
                   keepRunning, exitCode>>

ResolverNext == ResolveSources

ResolverSpec == ResolverInit /\ [][ResolverNext]_vars

(***************************************************************************)
(* Resolver claims.                                                        *)
(***************************************************************************)
RegistryEntries ==
    LET srcs == readIndex(indexFile, defaultIndex).sources
    IN  {srcs[i] : i \in 1..Len(srcs)}

\* What the remote branch yields for the exchange the call saw.
RemoteLists == {loadSourcesFromMaster(nRemote, uuid).sources : uuid \in Rnd}

\* C7: first match wins.  A call that returns, returns with a target URL the
\* one registry entry for that URL; otherwise with the random flag one member
\* of the registry, or nothing when the registry is empty; otherwise with the
\* remote flag the remote list; otherwise the sources of the local file.
C7_FirstMatchWins ==
    nResult.outcome = "returned" =>
        IF nOpts.targetUrl # NoTarget
        THEN /\ Len(nResult.sources) = 1
             /\ nResult.sources[1] \in RegistryEntries
             /\ LowerSeq(nResult.sources[1].baseUrl) = LowerSeq(normalizeUrl(nOpts.targetUrl))
        ELSE IF nOpts.randomFromGlobal
        THEN IF RegistryEntries = {}
             THEN nResult.sources = <<>>
             ELSE Len(nResult.sources) = 1 /\ nResult.sources[1] \in RegistryEntries
        ELSE IF nOpts.fetchRemoteSources
        THEN nRemote.kind = "ok" /\ nResult.sources \in RemoteLists
        ELSE (nOpts.sourcesPath /\ nFile.kind = "json" /\ ConfigSchema(nFile.sources)) =>
                 /\ Len(nResult.sources) = Len(nFile.sources)
                 /\ \A i \in 1..Len(nFile.sources) :
                       /\ nResult.sources[i].id = nFile.sources[i].id
                       /\ nResult.sources[i].baseUrl = nFile.sources[i].baseUrl
                       /\ nResult.sources[i].collection = nFile.sources[i].collection

\* C7 witness: a target URL given together with every other option, on an
\* empty registry; the call returned the entry it added.
C7_Witness ==
    /\ nResult.outcome = "returned"
    /\ nOpts.targetUrl # NoTarget
    /\ nOpts.randomFromGlobal /\ nOpts.fetchRemoteSources /\ nOpts.sourcesPath
    /\ nRemote.kind = "ok" /\ Len(nRemote.data) = 2
    /\ RegistryEntries = {nResult.sources[1]}

\* The local file cannot be loaded or fails the schema, as C8 lists it.
RECURSIVE anyEntry(_, _)
anyEntry(list, i) ==
    IF i > Len(list) THEN FALSE
    ELSE \/ list[i].id \in {NoVal, ""}
         \/ list[i].name \in {NoVal, ""}
         \/ ~isUrl(list[i].baseUrl)
         \/ /\ list[i].collection # NoCollection
            /\ list[i].collection.listingUrls = <<>>
            /\ (list[i].collection.searchUrlTemplate = NoVal
                \/ list[i].collection.searchTerms = <<>>)
         \/ anyEntry(list, i + 1)

FileUnusable ==
    \/ nFile.kind # "json"
    \/ nFile.sources = <<>>
    \/ anyEntry(nFile.sources, 1)

\* C8: when the local file cannot be loaded or fails the schema and the remote
\* endpoint answers, the call returns the remote list and nothing of the file.
C8_FallbackToRemote ==
    ( /\ nResult.outcome # "none"
      /\ nOpts.targetUrl = NoTarget /\ ~nOpts.randomFromGlobal
      /\ ~nOpts.fetchRemoteSources /\ nOpts.sourcesPath
      /\ FileUnusable
      /\ nRemote.kind = "ok" ) =>
        /\ nResult.outcome = "returned"
        /\ nResult.sources \in RemoteLists
        /\ \A i \in 1..Len(nResult.sources) :
              \A j \in 1..Len(nFile.sources) :
                 nResult.sources[i] # [nFile.sources[j] EXCEPT !.type = "generic"]
                 /\ nResult.sources[i] # nFile.sources[j]

\* C8 witness: a file with one valid and one invalid entry, a remote list
\* of two items, and the two remote sources returned.
C8_Witness ==
    /\ nResult.outcome = "returned"
    /\ nOpts.targetUrl = NoTarget /\ ~nOpts.randomFromGlobal
    /\ ~nOpts.fetchRemoteSources /\ nOpts.sourcesPath
    /\ nFile.kind = "json" /\ Len(nFile.sources) = 2
    /\ SourceSchema(nFile.sources[1]) /\ ~SourceSchema(nFile.sources[2])
    /\ nRemote.kind = "ok" /\ Len(nRemote.data) = 2
    /\ Len(nResult.sources) = 2

(***************************************************************************)
(* runNode (node CLI): the loop of passes.  The local file and the remote  *)
(* endpoint are read anew in each pass; processSources runs as the driver  *)
(* actions above while runNode awaits it.                                  *)
(***************************************************************************)
NodeOptions ==
    [targetUrl : {NoTarget, [scheme |-> "https://", host |-> "a.org", tail |-> <<"/", "p">>]},
     targetName : {NoVal}, randomFromGlobal : BOOLEAN, fetchRemoteSources : BOOLEAN,
     sourcesPath : BOOLEAN, loop : BOOLEAN]

NodeRunOptions ==
    { [llamaEnabled |-> TRUE, dryRun |-> TRUE, appendArtifactsToIndex |-> FALSE,
       cooldown |-> FALSE, maxSources |-> <<1>>],
      [llamaEnabled |-> FALSE, dryRun |-> FALSE, appendArtifactsToIndex |-> TRUE,
       cooldown |-> TRUE, maxSources |-> NoNum] }

NodeFiles ==
    { [kind |-> "missing", sources |-> <<>>],
      [kind |-> "json", sources |-> <<FileEntry("s1", "Met", "https://a.org", NoCollection)>>] }

NodeRemotes ==
    { [kind |-> "error", data |-> <<>>],
      [kind |-> "non2xx", data |-> <<>>],
      [kind |-> "ok", data |-> <<>>],
      [kind |-> "ok", data |-> <<RemoteItem(<<7>>, "Met", "https://a.org", NoVal)>>] }

NodeInit ==
    /\ RegistryIdle
    /\ TraversalIdle
    /\ GateIdle
    /\ dOpts \in NodeRunOptions
    /\ dSources = <<>>
    /\ dSrcIdx = 1
    /\ dArtifacts = <<>>
    /\ dArtIdx = 1
    /\ dPc = "done"
    /\ cur = NoArtifact
    /\ nOpts \in NodeOptions
    /\ nFile = NoLocalFile
    /\ nRemote = NoRemote
    /\ nResult = [outcome |-> "none", sources |-> <<>>]
    /\ nPc = "resolve"
    /\ keepRunning = TRUE
    /\ exitCode = 0
    /\ silent = {}
    /\ Cc0Idle
    /\ ServicesIdle

\* const sources = await resolveSources(options): a rejection leaves runNode
\* and main, whose catch sets process.exitCode; an empty list goes to the
\* sleep before the retry; otherwise processSources begins, with no artifact
\* in hand yet.
RunResolve ==
    /\ nPc = "resolve"
    /\ \E localFile \in NodeFiles, remote \in NodeRemotes, rnd \in Rnd :
       \E pick \in Picks(Len(readIndex(indexFile, defaultIndex).sources)) :
          LET out == resolveSources(nOpts, indexFile, defaultIndex, localFile, remote, rnd, pick)
          IN  /\ nFile' = IF readsLocalFile(nOpts) THEN localFile ELSE NoLocalFile
              /\ nRemote' = IF readsRemote(nOpts, localFile) THEN remote ELSE NoRemote
              /\ indexFile' = out.file
              /\ defaultIndex' = out.dflt
              /\ nResult' = [outcome |-> IF out.threw THEN "threw" ELSE "returned",
                             sources |-> out.sources]
              /\ IF out.threw
                 THEN /\ nPc' = "exited"
                      /\ exitCode' = 1
                      /\ UNCHANGED <<dSources, dSrcIdx, dArtifacts, dArtIdx, dPc>>
                 ELSE IF Len(out.sources) = 0
                 THEN /\ nPc' = "sleepEmpty"
                      /\ UNCHANGED <<exitCode, dSources, dSrcIdx, dArtifacts, dArtIdx, dPc>>
                 ELSE /\ nPc' = "process"
                      /\ dSources' = out.sources
                      /\ dSrcIdx' = 1
                      /\ dArtifacts' = <<>>
                      /\ dArtIdx' = 1
                      /\ dPc' = IF Len(sliceOf(out.sources, dOpts)) >= 1 THEN "scrape" ELSE "done"
                      /\ UNCHANGED exitCode
    /\ cur' = NoArtifact
    /\ UNCHANGED <<lastCall, rProc, travVars, gateVars, cc0Vars, svcVars, dOpts, nOpts, silent, keepRunning>>

\* await sleep(interval); continue: back to the loop condition.
RunSleepEmpty ==
    /\ nPc = "sleepEmpty"
    /\ nPc' = IF keepRunning THEN "resolve" ELSE "stopped"
    /\ UNCHANGED <<regVars, travVars, gateVars, cc0Vars, svcVars, drvVars, nOpts, silent, nFile, nRemote, nResult,
                   keepRunning, exitCode>>

\* Mutant: a loop that does not test options.loop after the pass.
RunAfterProcess_AlwaysLoops ==
    /\ nPc = "process"
    /\ dPc = "done"
    /\ nPc' = IF ~keepRunning THEN "stopped" ELSE "sleepLoop"
    /\ UNCHANGED <<regVars, travVars, gateVars, cc0Vars, svcVars, drvVars, nOpts, silent, nFile, nRemote, nResult,
                   keepRunning, exitCode>>

\* processSources has returned: the two breaks, or on to the sleep.
RunAfterProcess ==
    /\ nPc = "process"
    /\ dPc = "done"
    /\ nPc' = IF ~nOpts.loop \/ ~keepRunning THEN "stopped" ELSE "sleepLoop"
    /\ UNCHANGED <<regVars, travVars, gateVars, cc0Vars, svcVars, drvVars, nOpts, silent, nFile, nRemote, nResult,
                   keepRunning, exitCode>>

\* await sleep(interval) at the end of the body, then the loop condition.
RunSleepLoop ==
    /\ nPc = "sleepLoop"
    /\ nPc' = IF keepRunning THEN "resolve" ELSE "stopped"
    /\ UNCHANGED <<regVars, travVars, gateVars, cc0Vars, svcVars, drvVars, nOpts, silent, nFile, nRemote, nResult,
                   keepRunning, exitCode>>

\* Mutant: a handler that also abandons the pass in progress.
Sigint_AbortsPass ==
    /\ nPc \notin {"stopped", "exited"}
    /\ keepRunning
    /\ keepRunning' = FALSE
    /\ dPc' = "done"
    /\ UNCHANGED <<regVars, travVars, gateVars, cc0Vars, svcVars, dOpts, dSources, dSrcIdx, dArtifacts,
                   dArtIdx, cur, nOpts, silent, nFile, nRemote, nResult, nPc, exitCode>>

\* process.on("SIGINT", ...)
Sigint ==
    /\ nPc \notin {"stopped", "exited"}
    /\ keepRunning
    /\ keepRunning' = FALSE
    /\ UNCHANGED <<regVars, travVars, gateVars, cc0Vars, svcVars, drvVars, nOpts, silent, nFile, nRemote, nResult,
                   nPc, exitCode>>

NodeNext ==
    \/ RunResolve
    \/ RunSleepEmpty
    \/ RunAfterProcess
    \/ RunSleepLoop
    \/ Sigint
    \/ DrvScrape
    \/ DrvArtifact
    \/ DrvClassify
    \/ DrvSubmit
    \/ DrvAppend
    \/ DrvCooldown

NodeSpec == NodeInit /\ [][NodeNext]_vars

(***************************************************************************)
(* Node claims.                                                            *)
(***************************************************************************)
\* C9: source resolution never ends the driver.  A pass whose resolution
\* fails or yields nothing goes to the sleep before the retry, and the
\* process does not exit with an error.
C9_ResolutionNeverFatal ==
    /\ exitCode = 0
    /\ nPc # "exited"
    /\ (nResult.outcome = "threw"
        \/ (nResult.outcome = "returned" /\ nResult.sources = <<>>)) =>
           nPc \in {"sleepEmpty", "resolve", "stopped"}

(***************************************************************************)
(* IEEE-754 doubles, as assessCc0 adds and compares them.  A double x with *)
(* 0 <= x < 4 is the triple <<a, b, c>> of 20-bit limbs with               *)
(* x = (a * 2^40 + b * 2^20 + c) / 2^57; every double from 0.05 up is such *)
(* a multiple of 2^-57.  Sums are rounded to 53 significant bits, ties to  *)
(* even.                                                                   *)
(***************************************************************************)
Limb == 1048576

Pow2(k) == IF k = 0 THEN 1 ELSE IF k = 1 THEN 2 ELSE IF k = 2 THEN 4
           ELSE IF k = 3 THEN 8 ELSE IF k = 4 THEN 16 ELSE IF k = 5 THEN 32 ELSE 64

\* Carry propagation.
norm(a, b, c) ==
    LET b1 == b + (c \div Limb)
    IN  <<a + (b1 \div Limb), b1 % Limb, c % Limb>>

\* Bits by which the value exceeds 53 significant bits.
excessBits(x) ==
    IF x[1] < 8192 THEN 0 ELSE IF x[1] < 16384 THEN 1 ELSE IF x[1] < 32768 THEN 2
    ELSE IF x[1] < 65536 THEN 3 ELSE IF x[1] < 131072 THEN 4
    ELSE IF x[1] < 262144 THEN 5 ELSE 6

\* Round to nearest double, ties to even.
roundToDouble(x) ==
    LET m == Pow2(excessBits(x))
        r == x[3] % m
        up == r * 2 > m \/ (r * 2 = m /\ m > 1 /\ (x[3] \div m) % 2 = 1)
    IN  norm(x[1], x[2], x[3] - r + (IF up THEN m ELSE 0))

\* x + y
fpAdd(x, y) == roundToDouble(norm(x[1] + y[1], x[2] + y[2], x[3] + y[3]))

\* n * x for an array length n
fpTimes(n, x) == roundToDouble(norm(n * x[1], n * x[2], n * x[3]))

\* x < y
fpLess(x, y) ==
    \/ x[1] < y[1]
    \/ x[1] = y[1] /\ x[2] < y[2]
    \/ x[1] = y[1] /\ x[2] = y[2] /\ x[3] < y[3]

\* Math.min(x, y)
fpMin(x, y) == IF fpLess(y, x) THEN y ELSE x

\* Number(x.toFixed(2)), in hundredths: the nearest multiple of 0.01 to the
\* exact value of x, the larger one on a tie.
toFixed2(x) ==
    LET p == norm(100 * x[1], 100 * x[2], 100 * x[3])
        q == p[1] \div 131072
        rest == <<p[1] % 131072, p[2], p[3]>>
    IN  IF fpLess(rest, <<65536, 0, 0>>) THEN q ELSE q + 1

F_zero == <<0, 0, 0>>
F_0_05 == <<6553, 629145, 629146>>
F_0_2 == <<26214, 419430, 419432>>
F_0_3 == <<39321, 629145, 629144>>
F_0_35 == <<45875, 209715, 209712>>
F_0_4 == <<52428, 838860, 838864>>
F_one == <<131072, 0, 0>>

(***************************************************************************)
(* assessCc0 (cc0).  A text is a sequence of words; a phrase of the table  *)
(* is in the text when its words are there in a row, after lower-casing.   *)
(***************************************************************************)
KEYWORDS ==
    << [phrase |-> <<"cc0">>, weight |-> F_0_4],
       [phrase |-> <<"creative", "commons", "zero">>, weight |-> F_0_4],
       [phrase |-> <<"public", "domain">>, weight |-> F_0_35],
       [phrase |-> <<"no", "rights", "reserved">>, weight |-> F_0_3],
       [phrase |-> <<"open", "access">>, weight |-> F_0_2],
       [phrase |-> <<"copyright", "free">>, weight |-> F_0_2] >>

\* haystack.includes(phrase)
includes(haystack, phrase) ==
    \E i \in 1..(Len(haystack) - Len(phrase) + 1) :
        SubSeq(haystack, i, i + Len(phrase) - 1) = phrase

\* The loop over KEYWORDS: score and evidence after the first k entries.
RECURSIVE scanKeywords(_, _)
scanKeywords(haystack, k) ==
    IF k = 0 THEN [score |-> F_zero, evidence |-> <<>>]
    ELSE LET before == scanKeywords(haystack, k - 1)
         IN  IF includes(haystack, KEYWORDS[k].phrase)
             THEN [score |-> fpAdd(before.score, KEYWORDS[k].weight),
                   evidence |-> Append(before.evidence, KEYWORDS[k].phrase)]
             ELSE before

\* Mutant: the matched phrases are listed last match first.
assessCc0_LastFirst(text, extraEvidence) ==
    LET haystack == LowerSeq(text)
        scanned == scanKeywords(haystack, Len(KEYWORDS))
        withExtra == IF Len(extraEvidence) > 0
                     THEN fpAdd(scanned.score,
                                fpMin(fpTimes(Len(extraEvidence), F_0_05), F_0_2))
                     ELSE scanned.score
        score == fpMin(withExtra, F_one)
    IN  [isLikelyCc0 |-> ~fpLess(score, F_0_4),
         confidence |-> toFixed2(score),
         evidence |-> [i \in 1..Len(scanned.evidence) |->
                          scanned.evidence[Len(scanned.evidence) + 1 - i]]
                      \o extraEvidence]

\* Mutant: the score is not capped at 1.
assessCc0_NoCap(text, extraEvidence) ==
    LET haystack == LowerSeq(text)
        scanned == scanKeywords(haystack, Len(KEYWORDS))
        score == IF Len(extraEvidence) > 0
                 THEN fpAdd(scanned.score,
                            fpMin(fpTimes(Len(extraEvidence), F_0_05), F_0_2))
                 ELSE scanned.score
    IN  [isLikelyCc0 |-> ~fpLess(score, F_0_4),
         confidence |-> toFixed2(score),
         evidence |-> scanned.evidence \o extraEvidence]

\* assessCc0(text, extraEvidence); confidence is in hundredths.
assessCc0(text, extraEvidence) ==
    LET haystack == LowerSeq(text)
        scanned == scanKeywords(haystack, Len(KEYWORDS))
        withExtra == IF Len(extraEvidence) > 0
                     THEN fpAdd(scanned.score,
                                fpMin(fpTimes(Len(extraEvidence), F_0_05), F_0_2))
                     ELSE scanned.score
        score == fpMin(withExtra, F_one)
    IN  [isLikelyCc0 |-> ~fpLess(score, F_0_4),
         confidence |-> toFixed2(score),
         evidence |-> scanned.evidence \o extraEvidence]

\* The pieces texts are put together from: the phrases of the table, one in
\* other case, two halves of a phrase, and a word of no weight.
Chunks ==
    {KEYWORDS[k].phrase : k \in 1..Len(KEYWORDS)}
    \cup {<<"Public", "DOMAIN">>, <<"public">>, <<"domain">>, <<"artifact">>}

RECURSIVE Flatten(_)
Flatten(chunks) == IF chunks = <<>> THEN <<>> ELSE Head(chunks) \o Flatten(Tail(chunks))

Texts == {Flatten(chunks) : chunks \in SeqsUpTo(Chunks, MaxChunks)}

ExtraEvidence == {[i \in 1..n |-> "license link"] : n \in 0..MaxExtra}

Cc0Init ==
    /\ RegistryIdle
    /\ TraversalIdle
    /\ GateIdle
    /\ DriverIdle
    /\ NodeIdle
    /\ ServicesIdle
    /\ cText \in Texts
    /\ cExtra \in ExtraEvidence
    /\ cPrev = NoResult
    /\ cResult = NoResult

\* assessCc0(text, extraEvidence)
Assess ==
    /\ cResult = NoResult
    /\ cResult' = assessCc0(cText, cExtra)
    /\ UNCHANGED <<regVars, travVars, gateVars, drvVars, nodeVars, svcVars, cText, cExtra, cPrev>>

\* The caller puts a phrase of the table before or after the text and
\* assesses the longer text.
AssessWithPhrase ==
    /\ cResult # NoResult
    /\ cPrev = NoResult
    /\ \E k \in 1..Len(KEYWORDS), atEnd \in BOOLEAN :
          LET longer == IF atEnd THEN cText \o KEYWORDS[k].phrase
                        ELSE KEYWORDS[k].phrase \o cText
          IN  /\ cText' = longer
              /\ cPrev' = cResult
              /\ cResult' = assessCc0(longer, cExtra)
    /\ UNCHANGED <<regVars, travVars, gateVars, drvVars, nodeVars, svcVars, cExtra>>

Cc0Next ==
    \/ Assess
    \/ AssessWithPhrase

Cc0Spec == Cc0Init /\ [][Cc0Next]_vars

(***************************************************************************)
(* Licensing claims.                                                       *)
(***************************************************************************)
\* C10: the confidence is between 0 and 1 for every text and every list of
\* extra evidence, and the text with a phrase of the table added never has a
\* lower confidence than the text without it.
C10_MonotonicBounded ==
    /\ cResult # NoResult => cResult.confidence \in 0..100
    /\ (cPrev # NoResult /\ cResult # NoResult) => cPrev.confidence <= cResult.confidence

\* C10 witness: a text with two phrases at 0.8, and with a third added
\* capped at 1.
C10_Witness ==
    /\ cPrev # NoResult
    /\ cResult # NoResult
    /\ cPrev.confidence = 80
    /\ cResult.confidence = 100
    /\ Len(cResult.evidence) >= 3

\* The weights of the table in hundredths, and the score the table defines:
\* the sum over the phrases found, plus 0.05 for each extra evidence string up
\* to 0.2, capped at 1.
WeightHundredths == <<40, 40, 35, 30, 20, 20>>

RECURSIVE SumFound(_, _)
SumFound(haystack, k) ==
    IF k = 0 THEN 0
    ELSE SumFound(haystack, k - 1)
         + (IF includes(haystack, KEYWORDS[k].phrase) THEN WeightHundredths[k] ELSE 0)

ClampedScore(text, extraEvidence) ==
    LET bonus == IF 5 * Len(extraEvidence) < 20 THEN 5 * Len(extraEvidence) ELSE 20
        total == SumFound(LowerSeq(text), Len(KEYWORDS)) + bonus
    IN  IF total < 100 THEN total ELSE 100

\* C11: isLikelyCc0 is true exactly when the clamped score is at least 0.4,
\* and the confidence is the clamped score to 2 decimals.
C11_ThresholdOnClampedScore ==
    cResult # NoResult =>
        /\ cResult.isLikelyCc0 = (ClampedScore(cText, cExtra) >= 40)
        /\ cResult.confidence = ClampedScore(cText, cExtra)

\* The phrases of the table found in the text, in table order.
RECURSIVE FoundInOrder(_, _)
FoundInOrder(haystack, k) ==
    IF k = 0 THEN <<>>
    ELSE FoundInOrder(haystack, k - 1)
         \o (IF includes(haystack, KEYWORDS[k].phrase) THEN <<KEYWORDS[k].phrase>> ELSE <<>>)

C12_WitnessRepeated ==
    /\ cResult # NoResult
    /\ cText = <<"cc0", "cc0">>
    /\ cResult.evidence = <<KEYWORDS[1].phrase>>

(***************************************************************************)
(* Order of the registry update and the submission in processSources.      *)
(***************************************************************************)
\* The steps of the current artifact that are a POST to the ingest endpoint,
\* and those that are a call of appendArtifactToIndex.
SubmitSteps == {"submitted", "submit-failed"}

AppendSteps == {"appended", "append-existing", "append-failed"}

\* C13: with the registry update enabled, the registry update for the
\* artifact's URL is performed before the artifact is submitted to the ingest
\* endpoint: every POST step of the artifact has an append step before it.
C13_RegistryBeforeSubmission ==
    dOpts.appendArtifactsToIndex =>
        \A i \in 1..Len(cur.steps) :
            cur.steps[i] \in SubmitSteps =>
                \E j \in 1..(i - 1) : cur.steps[j] \in AppendSteps

(***************************************************************************)
(* De-duplication of artifacts against the registry.                       *)
(***************************************************************************)
\* The registry file holds an entry that appendArtifactToIndex stored for
\* the URL of the current artifact.
RecordedByAppend ==
    \E i \in 1..Len(indexFile.sources) :
        /\ indexFile.sources[i].baseUrl = normalizeUrl(cur.url)
        /\ indexFile.sources[i].notes = appendOpts.notes

\* C14: an artifact whose URL is already recorded in the registry when its
\* turn comes in a pass is not forwarded to the ingest endpoint again.  The
\* first artifact of the first source of a pass can only have been recorded
\* by an earlier pass.
C14_RecordedNotForwardedAgain ==
    [][ (dPc = "submit" /\ dSrcIdx = 1 /\ dArtIdx = 1 /\ RecordedByAppend) =>
            ~(cur.posted = NoPayload /\ cur'.posted # NoPayload) ]_vars

(***************************************************************************)
(* Failed submissions.                                                     *)
(***************************************************************************)
\* The POST of the current artifact failed.
SubmitFailed == \E i \in 1..Len(cur.steps) : cur.steps[i] = "submit-failed"

\* C15: a failed submission fails only its artifact.  The error does not
\* leave processSources, the driver goes on with that artifact's registry
\* update and cooldown and then with the next artifact or source, and the
\* pass ends only after the last source of the slice.
C15_SubmitFailureIsolated ==
    /\ SubmitFailed =>
          /\ dPc # "crashed"
          /\ dPc \in {"append", "cooldown"}
             \/ (dPc = "artifact" /\ dArtIdx <= Len(dArtifacts))
             \/ (dPc = "scrape" /\ dSrcIdx <= Len(sliceOf(dSources, dOpts)))
             \/ (dPc = "done" /\ dSrcIdx = Len(sliceOf(dSources, dOpts)) + 1)
    /\ dPc = "done" => dSrcIdx = Len(sliceOf(dSources, dOpts)) + 1

\* C15 witness: the first artifact's POST failed and the driver is at the
\* second artifact of the same source.
C15_Witness ==
    /\ SubmitFailed
    /\ dPc = "artifact"
    /\ dArtIdx = 2

\* C15 witness: the POST of the last artifact of the first source failed and
\* the driver is scraping the second source.
C15_WitnessNextSource ==
    /\ SubmitFailed
    /\ dPc = "scrape"
    /\ dSrcIdx = 2

(***************************************************************************)
(* Failed fetches in a collection traversal.                               *)
(***************************************************************************)
\* A step of the traversal whose fetch failed.
FetchFailed == fetchFailures' = fetchFailures + 1

\* C16: in a collection traversal a failed fetch is a soft skip.  Each
\* iteration of the listing loop fetches the next listing URL and, failed or
\* not, goes on to the one after it unless the cap is reached or the list is
\* exhausted, and then to the detail phase when links were collected; a failed
\* listing fetch keeps the links collected so far.  Each iteration of the
\* detail loop fetches the next candidate link and, failed or not, goes on to
\* the one after it; a failed detail fetch keeps the artifacts so far and a
\* successful one adds its page's artifact.  At the end every candidate link
\* was fetched and at most the failed ones are missing from the result.
C16_FailedFetchIsSoftSkip ==
    /\ [][ (hasCollection(tSource) /\ tPc = "listing") =>
              /\ listingFetches' = Append(listingFetches, listingUrlsOf(tSource)[tIdx])
              /\ FetchFailed => detailLinks' = detailLinks
              /\ IF Len(detailLinks') < capOf(tSource) /\ tIdx < Len(listingUrlsOf(tSource))
                 THEN tPc' = "listing" /\ tIdx' = tIdx + 1
                 ELSE IF Len(detailLinks') > 0
                 THEN tPc' = "detail" /\ tIdx' = 1
                 ELSE tPc' = "done" ]_vars
    /\ [][ (hasCollection(tSource) /\ tPc = "detail") =>
              /\ detailFetches' = Append(detailFetches, detailLinks[tIdx].url)
              /\ artifacts' = IF FetchFailed THEN artifacts
                              ELSE Append(artifacts,
                                     parseHtml(detailLinks[tIdx].url,
                                               [listingUrl |-> detailLinks[tIdx].listing]))
              /\ IF tIdx < Len(detailLinks)
                 THEN tPc' = "detail" /\ tIdx' = tIdx + 1
                 ELSE tPc' = "done" ]_vars
    /\ [](hasCollection(tSource) /\ tPc = "done" =>
              /\ Len(detailFetches) = Len(detailLinks)
              /\ Len(artifacts) >= Len(detailLinks) - fetchFailures
              /\ \/ Len(listingFetches) = Len(listingUrlsOf(tSource))
                 \/ Len(detailLinks) >= capOf(tSource))

\* C16 witness: the fetch of the first of two candidate links failed, the
\* second was fetched and its artifact is the result.
C16_Witness ==
    /\ hasCollection(tSource)
    /\ tPc = "done"
    /\ fetchFailures = 1
    /\ Len(detailLinks) = 2
    /\ Len(detailFetches) = 2
    /\ Len(artifacts) = 1
    /\ artifacts[1].url = detailLinks[2].url

\* C16 witness: the first listing fetch failed, the second listing page was
\* fetched and its links were followed.
C16_WitnessListing ==
    /\ hasCollection(tSource)
    /\ tPc = "done"
    /\ fetchFailures = 1
    /\ Len(listingFetches) = 2
    /\ Len(artifacts) >= 1
    /\ Len(artifacts) = Len(detailLinks)
    /\ \A i \in 1..Len(detailLinks) : detailLinks[i].listing = listingFetches[2]

(***************************************************************************)
(* The interrupt signal.                                                   *)
(***************************************************************************)
\* C17: the interrupt only sets the flag: the step that clears keepRunning
\* changes nothing else, so no request in flight is aborted and the position
\* in the pass is kept.  A pass is left only when processSources has gone
\* through every source of the slice, and inside it sources and artifacts are
\* taken one after the other, whatever the flag.  Once the flag is cleared,
\* resolveSources is not called again: the end of the pass and the end of
\* either sleep lead to the stop of the driver.
C17_InterruptIsCooperative ==
    [][ /\ (keepRunning /\ ~keepRunning') =>
              UNCHANGED <<regVars, travVars, gateVars, cc0Vars, svcVars, drvVars,
                          nOpts, silent, nFile, nRemote, nResult, nPc, exitCode>>
        /\ (nPc = "process" /\ nPc' # "process") =>
              /\ dPc = "done"
              /\ dSrcIdx = Len(sliceOf(dSources, dOpts)) + 1
        /\ nPc = "process" =>
              /\ dSrcIdx' \in {dSrcIdx, dSrcIdx + 1}
              /\ dSrcIdx' = dSrcIdx + 1 =>
                    \/ dPc = "scrape"
                    \/ dArtIdx = Len(dArtifacts)
              /\ (dSrcIdx' = dSrcIdx /\ dPc # "scrape") => dArtIdx' \in {dArtIdx, dArtIdx + 1}
              /\ dPc' = "done" => dSrcIdx' = Len(sliceOf(dSources, dOpts)) + 1
        /\ ~keepRunning =>
              /\ ~(nPc # "resolve" /\ nPc' = "resolve")
              /\ (nPc \in {"sleepEmpty", "sleepLoop"} /\ nPc' # nPc) => nPc' = "stopped"
              /\ (nPc = "process" /\ nPc' # "process") => nPc' = "stopped"
      ]_vars

\* C17 witness: a looping driver that was interrupted and has stopped after
\* a pass that went through its two artifacts and posted the second.
C17_Witness ==
    /\ nOpts.loop
    /\ ~keepRunning
    /\ nPc = "stopped"
    /\ dPc = "done"
    /\ dSrcIdx = Len(sliceOf(dSources, dOpts)) + 1
    /\ cur.posted # NoPayload

\* C17 witness: the flag is cleared while the pass is at its second artifact.
C17_WitnessMidPass ==
    /\ ~keepRunning
    /\ nPc = "process"
    /\ dPc = "submit"
    /\ dArtIdx = 2

(***************************************************************************)
(* Suspension on network requests.  A request is issued and awaited in one *)
(* step of the driver; the step is possible when the peer answers (with    *)
(* any of the outcomes of the step) or when the request carries a deadline *)
(* that ends it.  A silent peer accepts the request and sends nothing.     *)
(***************************************************************************)
Peers == {"page", "classifier", "ingest", "sources"}

\* Whether the call site arms an AbortController timer for the request:
\* fetchHtml does; classifyArtifactWithLlama, MasterClient.submit and
\* loadSourcesFromMaster call fetch without a signal.
hasDeadline(peer) == peer = "page"

\* The await of a request to the peer returns.
resumes(peer) == peer \notin silent \/ hasDeadline(peer)

SilentSets == {{}} \cup {{p} : p \in Peers}

\* A looping driver that reads its sources from the local file or from the
\* remote endpoint.
PassOptions ==
    {o \in NodeOptions : o.targetUrl = NoTarget /\ ~o.randomFromGlobal /\ o.loop}

PassInit ==
    /\ RegistryIdle
    /\ TraversalIdle
    /\ GateIdle
    /\ Cc0Idle
    /\ ServicesIdle
    /\ dOpts \in NodeRunOptions
    /\ dSources = <<>>
    /\ dSrcIdx = 1
    /\ dArtifacts = <<>>
    /\ dArtIdx = 1
    /\ dPc = "done"
    /\ cur = NoArtifact
    /\ nOpts \in PassOptions
    /\ nFile = NoLocalFile
    /\ nRemote = NoRemote
    /\ nResult = [outcome |-> "none", sources |-> <<>>]
    /\ nPc = "resolve"
    /\ keepRunning = TRUE
    /\ exitCode = 0
    /\ silent \in SilentSets

\* resolveSources, whose remote branch awaits loadSourcesFromMaster.
PassResolve ==
    /\ RunResolve
    /\ nRemote' # NoRemote => resumes("sources")

\* scrapeSource: a page fetch that its deadline ends returns no page.
PassScrape ==
    /\ resumes("page")
    /\ DrvScrape
    /\ "page" \in silent => dPc' # "artifact"

PassClassify ==
    /\ resumes("classifier")
    /\ DrvClassify

\* A dry run makes no request.
PassSubmit ==
    /\ dOpts.dryRun \/ resumes("ingest")
    /\ DrvSubmit

\* The steps of the driver itself, which the event loop runs as soon as the
\* awaited promise settles or the timer fires.
PassSteps ==
    \/ PassResolve
    \/ RunSleepEmpty
    \/ RunAfterProcess
    \/ RunSleepLoop
    \/ PassScrape
    \/ DrvArtifact
    \/ PassClassify
    \/ PassSubmit
    \/ DrvAppend
    \/ DrvCooldown

PassNext == PassSteps \/ Sigint

PassSpec == PassInit /\ [][PassNext]_vars /\ WF_vars(PassSteps)

\* C18: every request is bounded by a timeout, so that with a peer that
\* accepts the request and never answers every suspension of the driver
\* still ends (the source-list fetch, the page fetch, the classifier call and
\* the submission) and the pass completes.
C18_EverySuspensionResumes ==
    /\ (nPc = "resolve") ~> (nPc # "resolve")
    /\ (nPc = "process" /\ dPc = "scrape") ~> (dPc # "scrape")
    /\ (dPc = "classify") ~> (dPc # "classify")
    /\ (dPc = "submit") ~> (dPc # "submit")
    /\ (nPc = "process") ~> (dPc = "done")

(***************************************************************************)
(* Order of processing: processSources with scrapeSource awaited inside    *)
(* it.  The sources are source records, the traversal of the source in     *)
(* hand runs while processSources is suspended on it, and what it returns  *)
(* is the artifact list of the inner loop.                                 *)
(***************************************************************************)
SinglePage == [baseUrl |-> <<"B">>, collection |-> NoCollection]

TwoListings ==
    [baseUrl |-> <<"B">>,
     collection |-> [listingUrls |-> << <<"L1">>, <<"L2">> >>, searchUrlTemplate |-> <<>>,
                     searchTerms |-> <<>>, maxItems |-> <<2>>]]

\* What the resolver returned.
OrderSources == {<<TwoListings>>, <<SinglePage, TwoListings>>, <<TwoListings, SinglePage>>}

\* Submission without the gate, the registry update and the cooldown.
OrderOptions ==
    {o \in RunOptions : ~o.llamaEnabled /\ ~o.dryRun /\ ~o.appendArtifactsToIndex /\ ~o.cooldown}

OrderInit ==
    /\ RegistryIdle
    /\ TraversalIdle
    /\ GateIdle
    /\ NodeIdle
    /\ Cc0Idle
    /\ ServicesIdle
    /\ dOpts \in OrderOptions
    /\ dSources \in OrderSources
    /\ dSrcIdx = 1
    /\ dArtifacts = <<>>
    /\ dArtIdx = 1
    /\ dPc = "scrape"
    /\ cur = NoArtifact

\* for (const source of slice) { ... scrapeSource(source): the call, up to the
\* first fetch.
OrderBegin ==
    /\ dPc = "scrape"
    /\ dPc' = "scraping"
    /\ tSource' = sliceOf(dSources, dOpts)[dSrcIdx]
    /\ tPc' = IF hasCollection(tSource') THEN "listing" ELSE "single"
    /\ tIdx' = 1
    /\ detailLinks' = <<>>
    /\ artifacts' = <<>>
    /\ listingFetches' = <<>>
    /\ detailFetches' = <<>>
    /\ offered' = {}
    /\ fetchFailures' = 0
    /\ cur' = NoArtifact
    /\ UNCHANGED <<regVars, gateVars, cc0Vars, svcVars, nodeVars, dOpts, dSources, dSrcIdx, dArtifacts, dArtIdx>>

\* The verdicts assessCc0 gave for the pages of the artifacts.
Cc0Flags(n) == [1..n -> BOOLEAN]

\* const artifacts = await scrapeSource(source) returns: the empty result
\* continues with the next source, otherwise the inner loop begins.
OrderReturn ==
    /\ dPc = "scraping"
    /\ tPc = "done"
    /\ \E flags \in Cc0Flags(Len(artifacts)) :
          LET arts == [i \in 1..Len(artifacts) |->
                          [url |-> artifacts[i].url, isLikelyCc0 |-> flags[i]]]
          IN  IF arts = <<>>
              THEN NextSource
              ELSE /\ dArtifacts' = arts
                   /\ dArtIdx' = 1
                   /\ dPc' = "artifact"
                   /\ UNCHANGED dSrcIdx
    /\ UNCHANGED <<regVars, travVars, gateVars, cc0Vars, svcVars, nodeVars, dOpts, dSources, cur>>

OrderNext ==
    \/ OrderBegin
    \/ ScrapeSingle
    \/ FetchListing
    \/ FetchDetail
    \/ OrderReturn
    \/ DrvArtifact
    \/ DrvSubmit
    \/ DrvCooldown

OrderSpec == OrderInit /\ [][OrderNext]_vars

\* The URLs of a list of links or of artifacts.
UrlsOf(list) == [i \in 1..Len(list) |-> list[i].url]

\* a is b with some of its elements left out: the elements of a are matched
\* to elements of b from left to right.
RECURSIVE IsSubsequence(_, _)
IsSubsequence(a, b) ==
    IF a = <<>> THEN TRUE
    ELSE IF b = <<>> THEN FALSE
    ELSE IF a[1] = b[1] THEN IsSubsequence(Tail(a), Tail(b))
    ELSE IsSubsequence(a, Tail(b))

\* The position of a listing URL in the listing URLs of the source in hand.
ListingPos(listingUrl) ==
    CHOOSE k \in 1..Len(listingUrlsOf(tSource)) : listingUrlsOf(tSource)[k] = listingUrl

\* The number of sources the pass goes through.
PassLength ==
    IF dOpts.maxSources # NoNum /\ dOpts.maxSources[1] < Len(dSources)
    THEN dOpts.maxSources[1] ELSE Len(dSources)

\* C19: the order of processing is fixed by the resolver and by discovery.
\* The source in hand is the dSrcIdx-th source the resolver returned, sources
\* are taken one after the other and the pass ends after the first maxSources
\* of them (after all, when the option is not set).  In a collection source
\* the candidate links are in the order of the listing URLs they came from,
\* the artifact list is a subsequence of the candidate links, and the inner
\* loop takes the artifacts of that list one after the other.
C19_DeterministicOrder ==
    /\ [](dPc \in {"scraping", "artifact", "submit", "cooldown"} =>
            /\ dSrcIdx <= PassLength
            /\ tSource = dSources[dSrcIdx]
            /\ hasCollection(tSource) =>
                  /\ \A i, j \in 1..Len(detailLinks) :
                        i < j => ListingPos(detailLinks[i].listing)
                                    <= ListingPos(detailLinks[j].listing)
                  /\ IsSubsequence(UrlsOf(artifacts), UrlsOf(detailLinks))
            /\ dPc # "scraping" =>
                  /\ UrlsOf(dArtifacts) = UrlsOf(artifacts)
                  /\ dArtIdx \in 1..Len(dArtifacts)
                  /\ dPc \in {"submit", "cooldown"} => cur.url = dArtifacts[dArtIdx].url)
    /\ [](dPc = "done" => dSrcIdx = PassLength + 1)
    /\ [][ /\ dSrcIdx' \in {dSrcIdx, dSrcIdx + 1}
           /\ dSrcIdx' = dSrcIdx + 1 =>
                 \/ dPc = "scraping" /\ artifacts = <<>>
                 \/ dArtIdx = Len(dArtifacts)
           /\ (dPc \in {"artifact", "cooldown"} /\ dSrcIdx' = dSrcIdx) =>
                 dArtIdx' \in {dArtIdx, dArtIdx + 1}
           /\ (dPc = "artifact" /\ dPc' = "submit") => cur'.url = dArtifacts[dArtIdx].url
         ]_vars

\* C19 witness: the second source of the resolver's list is in hand, its
\* first candidate link could not be fetched, and the artifact of the second
\* link is being submitted.
C19_Witness ==
    /\ dSources = <<SinglePage, TwoListings>>
    /\ dSrcIdx = 2
    /\ dPc = "submit"
    /\ Len(detailLinks) = 2
    /\ detailLinks[1].listing # detailLinks[2].listing
    /\ Len(artifacts) = 1
    /\ cur.url = detailLinks[2].url

\* C19 witness: a pass over two resolved sources that ended after the first,
\* with maxSources = 1, having submitted the second of its two artifacts.
C19_WitnessTruncated ==
    /\ Len(dSources) = 2
    /\ dOpts.maxSources = <<1>>
    /\ dPc = "done"
    /\ dSrcIdx = 2
    /\ Len(artifacts) = 2
    /\ cur.url = artifacts[2].url
    /\ cur.posted # NoPayload

(***************************************************************************)
(* The key of a registry entry.                                            *)
(***************************************************************************)
\* Scheme, host and path of a stored baseUrl: the URL up to its query
\* string, lower-cased, without a trailing slash.
SchemeHostPath(baseUrl) ==
    LET q == FirstIn(baseUrl, {"?"}, 1)
        upToPath == IF q = 0 THEN baseUrl ELSE SubSeq(baseUrl, 1, q - 1)
    IN  StripTrailingSlash(LowerSeq(upToPath))

hasQuery(baseUrl) == FirstIn(baseUrl, {"?"}, 1) # 0

\* C20: registry entries are keyed by scheme, host and path only.  The
\* registry never holds two entries whose URLs agree in scheme, host and path
\* and differ in the query string, and a call whose URL agrees with a stored
\* entry in scheme, host and path returns that entry with added = false.
C20_KeyIsSchemeHostPath ==
    /\ \A i, j \in 1..Len(indexFile.sources) :
          (i < j /\ (hasQuery(indexFile.sources[i].baseUrl)
                     \/ hasQuery(indexFile.sources[j].baseUrl))) =>
              SchemeHostPath(indexFile.sources[i].baseUrl)
                  # SchemeHostPath(indexFile.sources[j].baseUrl)
    /\ (lastCall.baseUrl # NoUrl /\ lastCall.added /\ hasQuery(lastCall.baseUrl)) =>
          \A i \in 1..Len(indexFile.sources) :
              indexFile.sources[i] # lastCall.source =>
                  SchemeHostPath(indexFile.sources[i].baseUrl)
                      # SchemeHostPath(lastCall.baseUrl)

(***************************************************************************)
(* The registry file shared by processes.  A call of addSourceToIndex is   *)
(* two steps, one up to `await writeIndex` and the write itself, so that   *)
(* the read-modify-write cycles of two processes can overlap; the access   *)
(* and the writeFile of ensureIndexFile can be two steps as well.  Each    *)
(* process has its own DEFAULT_INDEX; the file can also be edited from     *)
(* outside.                                                                *)
(***************************************************************************)
Procs == {1, 2}

\* randomUUID() of a process.
ProcRnd(p) == IF p = 1 THEN "r1" ELSE "r2"

SharedUrls ==
    { [scheme |-> "https://", host |-> "a.org", tail |-> <<>>],
      [scheme |-> "https://", host |-> "a.org", tail |-> <<"/", "p">>],
      [scheme |-> "https://", host |-> "a.org", tail |-> <<"/", "P">>] }

\* An entry an editor of the file adds by hand.
ExternalEntry ==
    newSource(normalizeUrl([scheme |-> "https://", host |-> "a.org", tail |-> <<"?">>]),
              [AddOptsNone EXCEPT !.name = "Met Museum"], "r1")

\* addSourceToIndex up to `await writeIndex(indexPath, index)`: the URL is
\* normalised, the file is ensured and read, and a new source is pushed onto
\* the array that was read.  toWrite is that array when a write is to follow.
addBegin(file, dflt, url, opts, rnd) ==
    IF UrlThrows(url)
    THEN [threw |-> TRUE, added |-> FALSE, source |-> NoSource, file |-> file,
          dflt |-> dflt, writes |-> FALSE, toWrite |-> <<>>]
    ELSE
    LET baseUrl == normalizeUrl(url)
        index == readIndex(file, dflt)
        at == findExisting(index.sources, baseUrl, 1)
    IN  IF at # 0
        THEN [threw |-> FALSE, added |-> FALSE, source |-> index.sources[at],
              file |-> index.file, dflt |-> dflt, writes |-> FALSE, toWrite |-> <<>>]
        ELSE LET source == newSource(baseUrl, opts, rnd)
                 pushed == Append(index.sources, source)
             IN  [threw |-> FALSE, added |-> TRUE, source |-> source,
                  file |-> index.file,
                  dflt |-> IF index.aliased THEN pushed ELSE dflt,
                  writes |-> TRUE, toWrite |-> pushed]

\* A process between calls.
IdleProc(dflt) == [pc |-> "idle", dflt |-> dflt, toWrite |-> <<>>, clean |-> TRUE]

\* The other processes after process p changed the file (or, with p = 0, an
\* editor did): a cycle in progress is no longer alone with the file.
Overlapped(p, changed) ==
    [q \in Procs |->
        IF q # p /\ changed /\ rProc[q].pc \in {"ensure", "read", "write"}
        THEN [rProc[q] EXCEPT !.clean = FALSE]
        ELSE rProc[q]]

SharedInit ==
    /\ indexFile \in {AbsentFile, FileWith(<<>>), FileNoSources}
    /\ defaultIndex = DEFAULT_INDEX
    /\ lastCall = NoCall
    /\ rProc = [p \in Procs |-> IdleProc(DEFAULT_INDEX)]
    /\ TraversalIdle
    /\ GateIdle
    /\ DriverIdle
    /\ NodeIdle
    /\ Cc0Idle
    /\ ServicesIdle

\* ensureIndexFile up to its write: access(absolutePath) of process p is
\* rejected with ENOENT.  The write is a later step, so that the steps of
\* the other process can come between the two.
EnsureAccess(p) ==
    /\ rProc[p].pc = "idle"
    /\ ~indexFile.exists
    /\ rProc' = [rProc EXCEPT ![p].pc = "ensure"]
    /\ UNCHANGED <<indexFile, defaultIndex, lastCall, travVars, gateVars, cc0Vars, svcVars, drvVars, nodeVars>>

\* await writeFile(absolutePath, JSON.stringify(DEFAULT_INDEX)) of
\* ensureIndexFile, whatever the file holds by now; readIndex goes on to
\* its readFile.
EnsureWrite(p) ==
    /\ rProc[p].pc = "ensure"
    /\ indexFile' = FileWith(rProc[p].dflt)
    /\ rProc' = [Overlapped(p, indexFile' # indexFile) EXCEPT ![p].pc = "read"]
    /\ UNCHANGED <<defaultIndex, lastCall, travVars, gateVars, cc0Vars, svcVars, drvVars, nodeVars>>

\* readFile of a process that has ensured the file rejects with ENOENT: the
\* file was removed in between, and the operation throws.
ReadThrows(p) ==
    /\ rProc[p].pc = "read"
    /\ ~indexFile.exists

\* Process p calls addSourceToIndex and runs it up to the write, the file
\* being ensured in the same step or in the two steps above.
BeginAdd(p) ==
    /\ rProc[p].pc \in {"idle", "read"}
    /\ IF ReadThrows(p)
       THEN /\ rProc' = [rProc EXCEPT ![p] = IdleProc(rProc[p].dflt)]
            /\ UNCHANGED indexFile
       ELSE \E url \in SharedUrls :
          LET out == addBegin(indexFile, rProc[p].dflt, url, AddOptsNone, ProcRnd(p))
          IN  /\ Len(out.toWrite) <= MaxEntries
              /\ indexFile' = out.file
              /\ rProc' = [Overlapped(p, out.file # indexFile) EXCEPT ![p] =
                              [pc |-> IF out.writes THEN "write" ELSE "idle",
                               dflt |-> out.dflt, toWrite |-> out.toWrite, clean |-> TRUE]]
    /\ UNCHANGED <<defaultIndex, lastCall, travVars, gateVars, cc0Vars, svcVars, drvVars, nodeVars>>

\* await writeIndex(indexPath, index); return { added: true, source }
EndAdd(p) ==
    /\ rProc[p].pc = "write"
    /\ indexFile' = writeIndex(rProc[p].toWrite)
    /\ rProc' = [Overlapped(p, indexFile' # indexFile) EXCEPT ![p] = IdleProc(rProc[p].dflt)]
    /\ UNCHANGED <<defaultIndex, lastCall, travVars, gateVars, cc0Vars, svcVars, drvVars, nodeVars>>

\* loadSourcesFromIndex: readIndex, which ensures the file.
ListAll(p) ==
    /\ rProc[p].pc \in {"idle", "read"}
    /\ indexFile' = IF ReadThrows(p) THEN indexFile
                    ELSE readIndex(indexFile, rProc[p].dflt).file
    /\ rProc' = [Overlapped(p, indexFile' # indexFile) EXCEPT ![p] = IdleProc(rProc[p].dflt)]
    /\ UNCHANGED <<defaultIndex, lastCall, travVars, gateVars, cc0Vars, svcVars, drvVars, nodeVars>>

\* An edit of the file from outside: an entry added by hand, the file
\* removed, or the file replaced by a document without a sources array.
ExternalEdit ==
    /\ \E edited \in {AbsentFile, FileNoSources,
                      FileWith(Append(indexFile.sources, ExternalEntry))} :
          /\ edited # indexFile
          /\ Len(edited.sources) <= MaxEntries
          /\ \A i \in 1..Len(indexFile.sources) : indexFile.sources[i] # ExternalEntry
          /\ indexFile' = edited
    /\ rProc' = Overlapped(0, TRUE)
    /\ UNCHANGED <<defaultIndex, lastCall, travVars, gateVars, cc0Vars, svcVars, drvVars, nodeVars>>

SharedNext ==
    \/ \E p \in Procs : EnsureAccess(p)
    \/ \E p \in Procs : EnsureWrite(p)
    \/ \E p \in Procs : BeginAdd(p)
    \/ \E p \in Procs : EndAdd(p)
    \/ \E p \in Procs : ListAll(p)
    \/ ExternalEdit

SharedSpec == SharedInit /\ [][SharedNext]_vars

\* The entries of the stored registry.
StoredEntries == {indexFile.sources[i] : i \in 1..Len(indexFile.sources)}

\* The entry a process is about to write with the array it read.
NewEntry(p) == rProc[p].toWrite[Len(rProc[p].toWrite)]

\* C21  Every registry operation works from the file alone and keeps no copy
\* between calls: a call whose read-modify-write cycle no other write
\* overlaps leaves in the file every entry that was there before it, and
\* nothing but those entries and the one it adds.
C21_RereadsAndKeepsNoCopy ==
    [][\A p \in Procs :
          /\ (BeginAdd(p) \/ ListAll(p)) => StoredEntries' = StoredEntries
          /\ (EndAdd(p) /\ rProc[p].clean) =>
                /\ StoredEntries \subseteq StoredEntries'
                /\ StoredEntries' \subseteq StoredEntries \cup {NewEntry(p)}]_vars

\* The registry operations of the processes alone, nobody editing the file.
ProcNext ==
    \/ \E p \in Procs : EnsureAccess(p)
    \/ \E p \in Procs : EnsureWrite(p)
    \/ \E p \in Procs : BeginAdd(p)
    \/ \E p \in Procs : EndAdd(p)
    \/ \E p \in Procs : ListAll(p)

ProcSpec == SharedInit /\ [][ProcNext]_vars

\* C22 as stated  The registry is append-only under any interleaving of the
\* registry operations of one or more processes: no step of an operation
\* takes an entry out of the stored registry.
C22_AppendOnlyAnyInterleaving ==
    [][\A p \in Procs :
          (BeginAdd(p) \/ EndAdd(p) \/ ListAll(p)) =>
              StoredEntries \subseteq StoredEntries']_vars

\* C22  The registry is append-only under every interleaving in which no
\* operation overlaps a write of another process: a listing, a lookup, a
\* write that no other write has preceded since its read, and the check and
\* write of ensureIndexFile with no write in between, keep every stored
\* entry.
C22_AppendOnlyWithoutOverlap ==
    [][\A p \in Procs :
          /\ (BeginAdd(p) \/ ListAll(p)) => StoredEntries \subseteq StoredEntries'
          /\ (EndAdd(p) /\ rProc[p].clean) => StoredEntries \subseteq StoredEntries'
          /\ ((EnsureAccess(p) \/ EnsureWrite(p)) /\ rProc[p].clean) =>
                StoredEntries \subseteq StoredEntries']_vars

\* Both processes have added an entry, one cycle after the other, and both
\* entries are stored.
C22_Witness ==
    /\ \A p \in Procs : rProc[p].pc = "idle"
    /\ \A p \in Procs :
          \E i \in 1..Len(indexFile.sources) : indexFile.sources[i].id[2] = ProcRnd(p)

(***************************************************************************)
(* fetchHtml (scraper.ts): one request under a deadline timer.             *)
(***************************************************************************)
MaxFetches == 3

\* How the request can end: a 2xx response whose body arrives, a response
\* that is not ok, a rejected fetch, the timer aborting the fetch, a body
\* that fails to arrive, the timer aborting the body.
FetchOutcomes == {"ok", "non2xx", "network", "timeout", "bodyError", "bodyTimeout"}

\* The try block: how it completes.
tryFetch(outcome) ==
    CASE outcome = "ok" -> [kind |-> "return", value |-> "html"]
      [] outcome = "non2xx" -> [kind |-> "return", value |-> "null"]
      [] OTHER -> [kind |-> "throw", value |-> "error"]

\* catch (error) { logger.error(...); return null; }
catchFetch(completion) ==
    IF completion.kind = "throw"
    THEN [kind |-> "return", value |-> "null"]
    ELSE completion

\* A fetchHtml that clears the timer at the end of the try block only.
fetchHtml_ClearInTry(outcome, timer) ==
    LET tried == tryFetch(outcome)
    IN  [outcome |-> outcome,
         completion |-> catchFetch(tried),
         timer |-> IF tried.kind = "return" THEN "cleared" ELSE timer]

\* fetchHtml from the settled request on: try, catch, and
\* finally { clearTimeout(timer) }.
fetchHtml(outcome, timer) ==
    [outcome |-> outcome,
     completion |-> catchFetch(tryFetch(outcome)),
     timer |-> "cleared"]

FetchInit ==
    /\ RegistryIdle
    /\ TraversalIdle
    /\ GateIdle
    /\ DriverIdle
    /\ NodeIdle
    /\ Cc0Idle
    /\ ServicesIdle

\* const timer = setTimeout(() => controller.abort(), timeout); fetch(url, ...)
FetchCall ==
    /\ hCall.pc = "idle"
    /\ Len(hCall.calls) < MaxFetches
    /\ hCall' = [hCall EXCEPT !.pc = "fetch", !.timer = "armed", !.aborted = FALSE]
    /\ UNCHANGED <<regVars, travVars, gateVars, drvVars, nodeVars, cc0Vars,
                   mirror, atlasKv, atlasLast, atlasNow, pCall>>

\* The deadline passes while the request or its body is awaited:
\* controller.abort().
TimerFires ==
    /\ hCall.pc \in {"fetch", "text"}
    /\ hCall.timer = "armed"
    /\ hCall' = [hCall EXCEPT !.timer = "fired", !.aborted = TRUE]
    /\ UNCHANGED <<regVars, travVars, gateVars, drvVars, nodeVars, cc0Vars,
                   mirror, atlasKv, atlasLast, atlasNow, pCall>>

\* The call returns to its caller.
Returned(outcome) ==
    LET out == fetchHtml(outcome, hCall.timer)
    IN  [hCall EXCEPT !.pc = "idle", !.timer = out.timer,
                      !.calls = Append(@, [outcome |-> out.outcome,
                                           completion |-> out.completion,
                                           timer |-> out.timer])]

\* await fetch(url, ...) settles.
FetchSettles ==
    /\ hCall.pc = "fetch"
    /\ \/ /\ hCall.aborted
          /\ hCall' = Returned("timeout")
       \/ /\ ~hCall.aborted
          /\ \/ hCall' = [hCall EXCEPT !.pc = "text"]
             \/ \E outcome \in {"non2xx", "network"} : hCall' = Returned(outcome)
    /\ UNCHANGED <<regVars, travVars, gateVars, drvVars, nodeVars, cc0Vars,
                   mirror, atlasKv, atlasLast, atlasNow, pCall>>

\* await response.text() settles.
TextSettles ==
    /\ hCall.pc = "text"
    /\ \/ /\ hCall.aborted
          /\ hCall' = Returned("bodyTimeout")
       \/ /\ ~hCall.aborted
          /\ \E outcome \in {"ok", "bodyError"} : hCall' = Returned(outcome)
    /\ UNCHANGED <<regVars, travVars, gateVars, drvVars, nodeVars, cc0Vars,
                   mirror, atlasKv, atlasLast, atlasNow, pCall>>

FetchNext ==
    \/ FetchCall
    \/ TimerFires
    \/ FetchSettles
    \/ TextSettles

FetchSpec == FetchInit /\ [][FetchNext]_vars

\* C23  Every call of fetchHtml returns and does not raise; it returns no
\* content for a status that is not 2xx, a network failure and a timeout
\* alike, and the page only for a 2xx response whose body arrived; when it
\* returns, on every path, the deadline timer has been cleared.
C23_SoftFailureAndTimerReleased ==
    /\ \A i \in 1..Len(hCall.calls) :
          LET call == hCall.calls[i]
          IN  /\ call.completion.kind = "return"
              /\ call.completion.value = (IF call.outcome = "ok" THEN "html" ELSE "null")
              /\ call.timer = "cleared"
    /\ hCall.pc = "idle" => hCall.timer \in {"none", "cleared"}

\* A call timed out and a later call ended in a network failure.
C23_Witness ==
    /\ Len(hCall.calls) = 2
    /\ hCall.calls[1].outcome \in {"timeout", "bodyTimeout"}
    /\ hCall.calls[2].outcome = "network"
    /\ hCall.pc = "idle"

\* A call got a response that was not ok, and a call succeeded.
C23_WitnessNon2xx ==
    /\ Len(hCall.calls) = 2
    /\ hCall.calls[1].outcome = "non2xx"
    /\ hCall.calls[2].outcome = "ok"

(***************************************************************************)
(* AtlasClient (atlasClient.ts): the mirror client of the node.            *)
(***************************************************************************)
MaxMirrorRequests == 2

\* config.baseUrl: absent, a string new URL() rejects, a URL.
\* config.apiKey: absent, only blanks, a key.
\* config.enabled: absent, true, false.
MirrorConfigs ==
    [baseUrl : {"undefined", "invalid", "https://atlas.example"},
     apiKey : {"undefined", "  ", "key"},
     enabled : {"undefined", "true", "false"}]

\* String.prototype.trim on the keys the model uses; undefined?.trim() is
\* undefined.
trimKey(apiKey) == IF apiKey = "  " THEN "" ELSE apiKey

\* Boolean(value) of an optional string.
truthy(value) == value # "undefined" /\ value # ""

\* constructor(config)
AtlasClient(config) ==
    LET apiKey == trimKey(config.apiKey)
        enabled == config.enabled # "false" /\ truthy(config.baseUrl) /\ truthy(apiKey)
    IN  IF truthy(config.baseUrl)
        THEN IF config.baseUrl = "invalid"
             THEN [baseUrl |-> "undefined", apiKey |-> apiKey, enabled |-> FALSE]
             ELSE [baseUrl |-> config.baseUrl, apiKey |-> apiKey, enabled |-> enabled]
        ELSE [baseUrl |-> "undefined", apiKey |-> apiKey, enabled |-> enabled]

\* isEnabled()
isEnabled(client) == client.enabled /\ truthy(client.baseUrl) /\ truthy(client.apiKey)

\* How a request of the client can end.
MirrorOutcomes == {"ok", "non2xx", "network", "timeout"}

\* No request was made.
NotIssued == [value |-> FALSE, raised |-> FALSE, issued |-> FALSE, path |-> "none"]

\* A postJson without the catch block.
postJson_NoCatch(client, path, outcome) ==
    IF ~truthy(client.baseUrl) \/ ~truthy(client.apiKey)
    THEN NotIssued
    ELSE [value |-> outcome = "ok",
          raised |-> outcome \in {"network", "timeout"},
          issued |-> TRUE, path |-> path]

\* postJson(path, payload, meta): false without a base URL or a key; else the
\* request, true for an ok response, false for any other and from the catch
\* block.
postJson(client, path, outcome) ==
    IF ~truthy(client.baseUrl) \/ ~truthy(client.apiKey)
    THEN NotIssued
    ELSE [value |-> outcome = "ok", raised |-> FALSE, issued |-> TRUE, path |-> path]

\* publishSource(source)
publishSource(client, outcome) ==
    IF ~isEnabled(client) THEN NotIssued ELSE postJson(client, "/api/sources", outcome)

\* publishArtifact(artifact, extras)
publishArtifact(client, outcome) ==
    IF ~isEnabled(client) THEN NotIssued ELSE postJson(client, "/api/artifacts", outcome)

\* The client after a call: the request it issued, if any, and what the call
\* returned.
afterCall(call, out, outcome) ==
    [mirror EXCEPT
        !.requests = IF out.issued THEN Append(@, out.path) ELSE @,
        !.last = [call |-> call, outcome |-> IF out.issued THEN outcome ELSE "none",
                  value |-> out.value, raised |-> out.raised, issued |-> out.issued]]

MirrorInit ==
    /\ RegistryIdle
    /\ TraversalIdle
    /\ GateIdle
    /\ DriverIdle
    /\ NodeIdle
    /\ Cc0Idle
    /\ hCall = [pc |-> "idle", timer |-> "none", aborted |-> FALSE, calls |-> <<>>]
    /\ \E config \in MirrorConfigs :
          mirror = [config |-> config, client |-> AtlasClient(config), requests |-> <<>>,
                    last |-> [call |-> "none", outcome |-> "none", value |-> FALSE,
                              raised |-> FALSE, issued |-> FALSE]]
    /\ atlasKv = [sources |-> {}, artifacts |-> {}]
    /\ atlasLast = [none |-> TRUE]
    /\ atlasNow = 0
    /\ pCall = [none |-> TRUE]

PublishSource ==
    /\ Len(mirror.requests) < MaxMirrorRequests
    /\ \E outcome \in MirrorOutcomes :
          mirror' = afterCall("publishSource", publishSource(mirror.client, outcome), outcome)
    /\ UNCHANGED <<regVars, travVars, gateVars, drvVars, nodeVars, cc0Vars,
                   hCall, atlasKv, atlasLast, atlasNow, pCall>>

PublishArtifact ==
    /\ Len(mirror.requests) < MaxMirrorRequests
    /\ \E outcome \in MirrorOutcomes :
          mirror' = afterCall("publishArtifact", publishArtifact(mirror.client, outcome), outcome)
    /\ UNCHANGED <<regVars, travVars, gateVars, drvVars, nodeVars, cc0Vars,
                   hCall, atlasKv, atlasLast, atlasNow, pCall>>

MirrorNext ==
    \/ PublishSource
    \/ PublishArtifact

MirrorSpec == MirrorInit /\ [][MirrorNext]_vars

\* The configurations the client is not enabled with: no base URL, no API
\* key, a base URL that is not a URL, enabled set to false.
NotEnabledConfig(config) ==
    \/ config.baseUrl = "undefined"
    \/ config.baseUrl = "invalid"
    \/ config.apiKey = "undefined"
    \/ config.enabled = "false"

\* C24  publishSource and publishArtifact never raise; they return false
\* when the response is not 2xx, on a network error and on a timeout; and a
\* client that is not enabled returns false and has issued no request.
C24_MirrorCallsBestEffort ==
    /\ ~mirror.last.raised
    /\ mirror.last.outcome \in {"non2xx", "network", "timeout"} => ~mirror.last.value
    /\ NotEnabledConfig(mirror.config) =>
          /\ ~mirror.last.value
          /\ mirror.requests = <<>>

\* An enabled client published a source, then lost an artifact request to a
\* timeout.
C24_Witness ==
    /\ mirror.requests = <<"/api/sources", "/api/artifacts">>
    /\ mirror.last.call = "publishArtifact"
    /\ mirror.last.outcome = "timeout"

\* A client made with an invalid URL was asked to publish.
C24_WitnessDisabled ==
    /\ mirror.config.baseUrl = "invalid"
    /\ mirror.config.apiKey = "key"
    /\ mirror.last.call = "publishSource"

\* C25  In dry-run mode nothing is posted to the ingest endpoint: no
\* artifact carries a posted payload or a submit step, and every artifact
\* that got past the gates has the dry-run log entry instead.
C25_DryRunNeverPosts ==
    dOpts.dryRun =>
        /\ cur.posted = NoPayload
        /\ \A i \in 1..Len(cur.steps) : cur.steps[i] \notin SubmitSteps
        /\ \A i \in 1..Len(cur.steps) :
              cur.steps[i] \in AppendSteps \cup {"cooldown"} =>
                  \E j \in 1..(i - 1) : cur.steps[j] = "dryrun"

\* A dry run logged the second artifact of a source and went on to the
\* registry.
C25_Witness ==
    /\ dOpts.dryRun
    /\ dArtIdx = 2
    /\ \E i \in 1..Len(cur.steps) : cur.steps[i] = "dryrun"
    /\ \E i \in 1..Len(cur.steps) : cur.steps[i] \in AppendSteps

(***************************************************************************)
(* The atlas worker (worker-atlas/src/index.ts): the fetch handler over    *)
(* two KV namespaces.  A request is received, then answered; the store and *)
(* the response are those of the handler run to its end.                   *)
(***************************************************************************)
MaxClock == 3

\* env.ATLAS_API_KEY
ATLAS_API_KEY == "key"

\* A JSON field or header value: absent, or a string with or without blanks
\* around it.
Absent == [t |-> "absent", core |-> "", pad |-> FALSE]

Text(core) == [t |-> "string", core |-> core, pad |-> FALSE]

Padded(core) == [t |-> "string", core |-> core, pad |-> TRUE]

\* String.prototype.trim
trim(value) == value.core

\* The length of the strings the model uses.
lenOf(core) ==
    CASE core = "" -> 0
      [] core = "ab" -> 2
      [] core = "x1" -> 2
      [] core = "Pot" -> 3
      [] core = "Met" -> 3
      [] core = "Met Museum" -> 10
      [] core = "https://a.org/1" -> 15

\* slice(0, max): every string of the model is shorter than every max.
sliceTo(core, max) == IF lenOf(core) <= max THEN core ELSE "(cut)"

Undefined == "undefined"

\* stringField(value, min, max)
stringField(value, min, max) ==
    IF value.t # "string" THEN Undefined
    ELSE LET trimmed == trim(value)
         IN  IF trimmed = "" \/ lenOf(trimmed) < min THEN Undefined
             ELSE sliceTo(trimmed, max)

\* a ?? b on field values
orElse(a, b) == IF a.t = "absent" THEN b ELSE a

\* hashKey(input): SHA-256 of the trimmed input, taken as injective.  The
\* input is given by its pieces; blanks around it do not count.
hashKey(pieces) == <<"sha256">> \o pieces

\* typeof body.id === "string" && body.id.trim().length > 0
hasId(body) == body.id.t = "string" /\ lenOf(trim(body.id)) > 0

\* namespace.get(key, "json"): the records stored under the key.
kvGet(namespace, key) == {e \in namespace : e.key = key}

\* namespace.put(key, JSON.stringify(record))
kvPut(namespace, key, record) ==
    {e \in namespace : e.key # key} \cup {[key |-> key, value |-> record]}

\* A response that leaves the store as it is.
respond(status, kv) == [status |-> status, threw |-> FALSE, kv |-> kv]

\* persistSource(body, env)
persistSource(body, kv, now) ==
    LET name == stringField(body.name, 3, 200)
        baseUrl == stringField(orElse(body.baseUrl, body.url), 5, 400)
    IN  IF name = Undefined \/ baseUrl = Undefined
        THEN respond(422, kv)
        ELSE LET keySeed == IF hasId(body) THEN <<trim(body.id)>>
                            ELSE <<name, ":", baseUrl>>
                 key == <<"source:">> \o hashKey(keySeed)
                 existing == kvGet(kv.sources, key)
                 old == CHOOSE e \in existing : TRUE
                 record == [id |-> IF existing # {} THEN old.value.id ELSE Tail(key),
                            name |-> name, url |-> baseUrl,
                            createdAt |-> IF existing # {} THEN old.value.createdAt ELSE now,
                            updatedAt |-> now]
             IN  [status |-> IF existing # {} THEN 200 ELSE 201, threw |-> FALSE,
                  kv |-> [kv EXCEPT !.sources = kvPut(@, key, record)]]

\* persistArtifact(body, env)
persistArtifact(body, kv, now) ==
    LET title == stringField(body.title, 3, 400)
        url == stringField(body.url, 5, 2048)
    IN  IF title = Undefined \/ url = Undefined
        THEN respond(422, kv)
        ELSE LET keySeed == IF hasId(body) THEN <<trim(body.id)>> ELSE <<url>>
                 key == <<"artifact:">> \o hashKey(keySeed)
                 existing == kvGet(kv.artifacts, key)
                 old == CHOOSE e \in existing : TRUE
                 record == [id |-> IF existing # {} THEN old.value.id ELSE Tail(key),
                            title |-> title, url |-> url,
                            createdAt |-> IF existing # {} THEN old.value.createdAt ELSE now,
                            updatedAt |-> now]
             IN  [status |-> IF existing # {} THEN 200 ELSE 201, threw |-> FALSE,
                  kv |-> [kv EXCEPT !.artifacts = kvPut(@, key, record)]]

\* toLowerCase on the authorization schemes.
lowerScheme(scheme) ==
    CASE scheme = "Bearer" -> "bearer"
      [] scheme = "Basic" -> "basic"
      [] OTHER -> scheme

\* The checks of authenticateAndHandle before the handler: 401 without a
\* bearer header, 401 for an empty or a wrong token, 400 for a body
\* request.json() rejects; 0 when the handler is to be called.
authenticate(request) ==
    IF request.auth.scheme = "none" \/ lowerScheme(request.auth.scheme) # "bearer" THEN 401
    ELSE IF trim(request.auth.token) = "" \/ trim(request.auth.token) # ATLAS_API_KEY THEN 401
    ELSE IF request.body.kind = "invalid" THEN 400
    ELSE 0

\* authenticateAndHandle(request, env, handler).  A body that parses to null
\* makes the handler's first field access throw a TypeError, which nothing
\* catches.
authenticateAndHandle(request, kv, now) ==
    LET status == authenticate(request)
    IN  IF status # 0 THEN respond(status, kv)
        ELSE IF request.body.kind = "null" THEN [status |-> 500, threw |-> TRUE, kv |-> kv]
        ELSE IF request.path = "/api/sources" THEN persistSource(request.body, kv, now)
        ELSE persistArtifact(request.body, kv, now)

\* fetch(request, env)
workerFetch(request, kv, now) ==
    IF request.method = "OPTIONS" THEN respond(200, kv)
    ELSE IF request.method = "GET" /\ request.path = "/api/atlas" THEN respond(200, kv)
    ELSE IF request.method = "POST" /\ request.path \in {"/api/sources", "/api/artifacts"}
         THEN authenticateAndHandle(request, kv, now)
    ELSE IF request.method = "GET" /\ request.path = "/" THEN respond(200, kv)
    ELSE respond(404, kv)

\* Authorization headers: none, the key, the key in another spelling of the
\* header, a wrong token, another scheme, no token.
GoodAuth ==
    { [scheme |-> "Bearer", token |-> Text(ATLAS_API_KEY)],
      [scheme |-> "bearer", token |-> Padded(ATLAS_API_KEY)] }

BadAuth ==
    { [scheme |-> "none", token |-> Text("")],
      [scheme |-> "Bearer", token |-> Text("wrong")],
      [scheme |-> "Basic", token |-> Text(ATLAS_API_KEY)],
      [scheme |-> "Bearer", token |-> Text("")] }

NoFields == [kind |-> "object", id |-> Absent, name |-> Absent, baseUrl |-> Absent, url |-> Absent, title |-> Absent]

\* Bodies: text that is not JSON, the JSON null, a JSON array, objects.
OtherBodies == {[NoFields EXCEPT !.kind = k] : k \in {"invalid", "null", "array"}}

Ids == {Absent, Text("x1"), Padded("")}

Urls == {Absent, Text("https://a.org/1"), Padded("https://a.org/1")}

SourceBodies ==
    { [kind |-> "object", id |-> id, name |-> name, baseUrl |-> baseUrl, url |-> url,
       title |-> Absent] :
        id \in Ids, name \in {Absent, Text("ab"), Text("Met"), Text("Met Museum")},
        baseUrl \in {Absent, Text("https://a.org/1")},
        url \in {Absent, Text("https://a.org/1")} }

ArtifactBodies ==
    { [kind |-> "object", id |-> id, name |-> Absent, baseUrl |-> Absent, url |-> url,
       title |-> title] :
        id \in Ids, title \in {Absent, Text("ab"), Text("Pot")}, url \in Urls }

\* One accepted body of each kind, for the requests that fail before the
\* body is looked at.
SampleBodies ==
    { b \in SourceBodies \cup ArtifactBodies :
        /\ b.id = Absent
        /\ b.url = Text("https://a.org/1")
        /\ b.baseUrl = Absent
        /\ b.name \in {Absent, Text("Met")}
        /\ b.title \in {Absent, Text("Pot")} }

Requests ==
    [method : {"POST"}, path : {"/api/sources"}, auth : GoodAuth,
     body : SourceBodies \cup OtherBodies]
    \cup [method : {"POST"}, path : {"/api/artifacts"}, auth : GoodAuth,
          body : ArtifactBodies \cup OtherBodies]
    \cup [method : {"POST"}, path : {"/api/sources", "/api/artifacts"}, auth : BadAuth,
          body : SampleBodies \cup OtherBodies]
    \cup [method : {"GET", "OPTIONS", "PUT"}, path : {"/api/atlas", "/", "/api/sources"},
          auth : {[scheme |-> "none", token |-> Text("")]},
          body : {[NoFields EXCEPT !.kind = "invalid"]}]

NoRequest == [none |-> TRUE]

WorkerInit ==
    /\ RegistryIdle
    /\ TraversalIdle
    /\ GateIdle
    /\ DriverIdle
    /\ NodeIdle
    /\ Cc0Idle
    /\ hCall = [pc |-> "idle", timer |-> "none", aborted |-> FALSE, calls |-> <<>>]
    /\ mirror = [none |-> TRUE]
    /\ atlasKv = [sources |-> {}, artifacts |-> {}]
    /\ atlasLast = [pc |-> "idle", request |-> NoRequest, status |-> 0, threw |-> FALSE]
    /\ atlasNow = 0
    /\ pCall = [none |-> TRUE]

\* A request arrives.
Receive ==
    /\ atlasLast.pc = "idle"
    /\ atlasNow < MaxClock
    /\ \E request \in Requests :
          atlasLast' = [pc |-> "handling", request |-> request, status |-> 0, threw |-> FALSE]
    /\ UNCHANGED <<regVars, travVars, gateVars, drvVars, nodeVars, cc0Vars,
                   hCall, mirror, atlasKv, atlasNow, pCall>>

\* The handler runs to its end; the clock moves on when a record was put.
Respond ==
    /\ atlasLast.pc = "handling"
    /\ LET out == workerFetch(atlasLast.request, atlasKv, atlasNow)
       IN  /\ atlasKv' = out.kv
           /\ atlasLast' = [pc |-> "idle", request |-> NoRequest,
                            status |-> out.status, threw |-> out.threw]
           /\ atlasNow' = IF out.status \in {200, 201} /\ atlasLast.request.method = "POST"
                          THEN atlasNow + 1 ELSE atlasNow
    /\ UNCHANGED <<regVars, travVars, gateVars, drvVars, nodeVars, cc0Vars, hCall, mirror, pCall>>

WorkerNext ==
    \/ Receive
    \/ Respond

WorkerSpec == WorkerInit /\ [][WorkerNext]_vars

\* The request being answered is a POST to one of the two record paths.
AnsweringPost ==
    /\ atlasLast.pc = "handling"
    /\ atlasLast'.pc = "idle"
    /\ atlasLast.request.method = "POST"
    /\ atlasLast.request.path \in {"/api/sources", "/api/artifacts"}

\* The request carries the configured key as its bearer token.
Authorized(request) ==
    /\ request.auth.scheme \in {"Bearer", "bearer"}
    /\ request.auth.token.core = ATLAS_API_KEY

\* The body is JSON and lacks a field its path requires.
LacksRequired(request) ==
    /\ request.body.kind # "invalid"
    /\ IF request.path = "/api/sources"
       THEN request.body.name = Absent
            \/ (request.body.baseUrl = Absent /\ request.body.url = Absent)
       ELSE request.body.title = Absent \/ request.body.url = Absent

\* C26  A POST to /api/sources or /api/artifacts without the configured key
\* as bearer token is answered 401; with it, a body that is not JSON is
\* answered 400 and a JSON body lacking name/baseUrl (title/url) 422; in
\* each of these cases the two KV namespaces are left as they were.
C26_RejectedRequestsPersistNothing ==
    [][AnsweringPost =>
          LET request == atlasLast.request
          IN  /\ ~Authorized(request) =>
                    atlasLast'.status = 401 /\ atlasKv' = atlasKv
              /\ (Authorized(request) /\ request.body.kind = "invalid") =>
                    atlasLast'.status = 400 /\ atlasKv' = atlasKv
              /\ (Authorized(request) /\ LacksRequired(request)) =>
                    atlasLast'.status = 422 /\ atlasKv' = atlasKv]_vars

\* The namespace a path writes to.
namespaceOf(kv, path) == IF path = "/api/sources" THEN kv.sources ELSE kv.artifacts

\* The URL a body submits: baseUrl or url for a source, url for an artifact.
urlOf(request) ==
    IF request.path = "/api/sources"
    THEN stringField(orElse(request.body.baseUrl, request.body.url), 5, 400)
    ELSE stringField(request.body.url, 5, 2048)

\* The stored records of a URL.
recordsOf(kv, path, url) == {e \in namespaceOf(kv, path) : e.value.url = url}

\* The request is an authorized POST of a complete body without an id.
ValidWithoutId(request) ==
    /\ Authorized(request)
    /\ request.body.kind = "object"
    /\ request.body.id.core = ""
    /\ urlOf(request) # Undefined
    /\ IF request.path = "/api/sources"
       THEN stringField(request.body.name, 3, 200) # Undefined
       ELSE stringField(request.body.title, 3, 400) # Undefined

\* A record stored under an explicit id.
KeyedById(e) == e.value.id = hashKey(<<"x1">>)

\* C27  Records are keyed by URL when no id is given: when only POSTs
\* without an id have been made for a source URL (or an artifact URL), a
\* further such POST is answered 201 if the store has no record of the URL
\* and 200 if it has one, the store then holds exactly one record of the
\* URL, and that record keeps the id and createdAt it had.
C27_OneRecordPerUrl ==
    [][(AnsweringPost /\ ValidWithoutId(atlasLast.request)) =>
          LET request == atlasLast.request
              before == recordsOf(atlasKv, request.path, urlOf(request))
              after == recordsOf(atlasKv', request.path, urlOf(request))
          IN  (\A e \in before : ~KeyedById(e)) =>
                 /\ atlasLast'.status = (IF before = {} THEN 201 ELSE 200)
                 /\ Cardinality(after) = 1
                 /\ \A old \in before : \A new \in after :
                       /\ new.value.id = old.value.id
                       /\ new.value.createdAt = old.value.createdAt]_vars

\* The Collection Spec has neither listing URLs nor a template with terms.
NoListingSource(source) ==
    /\ hasCollection(source)
    /\ source.collection.listingUrls = <<>>
    /\ source.collection.searchUrlTemplate = <<>> \/ source.collection.searchTerms = <<>>

\* C28 as stated  Without listing URLs and without a template with terms
\* the base URL is the only detail page: nothing but the base URL is
\* fetched, and it once; no link is collected from it; at most one artifact
\* is extracted, and it is the one of the base URL.
C28_BaseUrlIsOnlyDetailPage ==
    NoListingSource(tSource) =>
        /\ Len(listingFetches \o detailFetches) <= 1
        /\ \A i \in 1..Len(listingFetches \o detailFetches) :
              (listingFetches \o detailFetches)[i] = tSource.baseUrl
        /\ detailLinks = <<>>
        /\ Len(artifacts) <= 1
        /\ \A i \in 1..Len(artifacts) : artifacts[i].url = tSource.baseUrl

\* C28  Without listing URLs and without a template with terms the base URL
\* is the only listing page: it is fetched once, as a listing; the link
\* selector is applied to it, so that every collected link is one of its
\* anchors' targets, found on it; and the artifacts are those of the
\* collected links' pages, at most the cap.
C28_BaseUrlIsOnlyListingPage ==
    NoListingSource(tSource) =>
        /\ Len(listingFetches) <= 1
        /\ tPc # "listing" => listingFetches = <<tSource.baseUrl>>
        /\ \A i \in 1..Len(detailLinks) :
              /\ detailLinks[i].listing = tSource.baseUrl
              /\ detailLinks[i].url \in offered
        /\ (tPc # "listing" /\ offered # {}) => detailLinks # <<>>
        /\ Len(artifacts) <= capOf(tSource)
        /\ \A i \in 1..Len(artifacts) :
              /\ \E j \in 1..Len(detailLinks) : artifacts[i].url = detailLinks[j].url
              /\ artifacts[i].metadata.listingUrl = tSource.baseUrl

\* The base URL was fetched as a listing and two of its links gave an
\* artifact each.
C28_Witness ==
    /\ NoListingSource(tSource)
    /\ listingFetches = <<tSource.baseUrl>>
    /\ Len(detailLinks) = 2
    /\ Len(artifacts) = 2
    /\ tPc = "done"

\* C29  No link whose target fails to resolve, and none without a value of
\* the attribute, is collected or fetched: the candidate list and the detail
\* fetches hold resolved targets only.
C29_UnresolvableLinksSkipped ==
    hasCollection(tSource) =>
        /\ \A i \in 1..Len(detailLinks) : detailLinks[i].url \notin {0, -1}
        /\ \A i \in 1..Len(detailFetches) : detailFetches[i] \notin {0, -1}

\* The number of templated listing URLs of a collection.
TemplatedCount(collection) ==
    IF collection.searchUrlTemplate # <<>> THEN Len(collection.searchTerms) ELSE 0

\* The listing URLs fetched so far are, position by position, the static
\* list and then the template filled with each term in turn (the base URL
\* when there is neither).
FetchedInBuildOrder ==
    LET collection == tSource.collection
        static == collection.listingUrls
        n == Len(static)
    IN  /\ Len(listingFetches) <= IF NoListingSource(tSource) THEN 1
                                  ELSE n + TemplatedCount(collection)
        /\ \A i \in 1..Len(listingFetches) :
              IF NoListingSource(tSource) THEN listingFetches[i] = tSource.baseUrl
              ELSE IF i <= n THEN listingFetches[i] = static[i]
              ELSE listingFetches[i] =
                      <<collection.searchUrlTemplate[1], encodeTerm(collection.searchTerms[i - n])>>

\* C30  The listing URLs are fetched in build order, the static list first
\* and then one templated URL per search term in term order, and once the
\* collected links have reached the cap no further listing URL is fetched.
C30_NoListingFetchAfterCap ==
    /\ [](hasCollection(tSource) => FetchedInBuildOrder)
    /\ [][(hasCollection(tSource) /\ Len(detailLinks) >= capOf(tSource)) =>
              listingFetches' = listingFetches]_vars

\* One static listing and two terms, cap 2: the cap was reached on the first
\* templated listing and the second was never requested.
C30_Witness ==
    /\ hasCollection(tSource)
    /\ Len(listingUrlsOf(tSource)) = 3
    /\ listingFetches = << <<"L1">>, <<"S?q=", "silk">> >>
    /\ Len(detailLinks) = 2
    /\ detailLinks[2].listing = <<"S?q=", "silk">>
    /\ tPc = "done"

\* All four listing URLs of a collection were fetched, the last two being
\* those of the two terms in their order.
C30_WitnessAllListings ==
    /\ hasCollection(tSource)
    /\ listingFetches = << <<"L1">>, <<"L2">>, <<"S?q=", "silk">>, <<"S?q=", "jade">> >>

\* The candidate links have pairwise distinct targets.
LinksDistinct ==
    \A i \in 1..Len(detailLinks) : \A j \in 1..Len(detailLinks) :
        detailLinks[i].url = detailLinks[j].url => i = j

\* A listing step only appends candidates, and each candidate it appends is
\* a target no earlier listing page showed, recorded with the listing URL
\* just fetched.
RecordedOnFirstSight ==
    /\ Len(detailLinks') >= Len(detailLinks)
    /\ \A i \in 1..Len(detailLinks) : detailLinks'[i] = detailLinks[i]
    /\ \A i \in (Len(detailLinks) + 1)..Len(detailLinks') :
          /\ detailLinks'[i].url \notin offered
          /\ detailLinks'[i].listing = listingFetches'[Len(listingFetches')]

\* C31  The candidate links of a traversal are pairwise distinct; a link
\* seen again takes no place under the cap, so that the candidates are as
\* many as the distinct targets shown, up to the cap; every candidate is
\* recorded, once and for all, with the listing page on which its target was
\* first seen, and every artifact's metadata carries the listing URL of its
\* candidate.
C31_DistinctLinksFirstListing ==
    /\ [](hasCollection(tSource) =>
            /\ LinksDistinct
            /\ tPc \in {"detail", "done"} =>
                  Len(detailLinks) >= (IF Cardinality(offered) < capOf(tSource)
                                       THEN Cardinality(offered) ELSE capOf(tSource))
            /\ \A i \in 1..Len(artifacts) :
                  \E j \in 1..Len(detailLinks) :
                      /\ artifacts[i].url = detailLinks[j].url
                      /\ artifacts[i].metadata.listingUrl = detailLinks[j].listing)
    /\ [][hasCollection(tSource) => RecordedOnFirstSight]_vars

\* Two listing pages were fetched, the second showing again the link of the
\* first and a new one; both links are candidates, each with its own
\* listing, and both gave an artifact.
C31_Witness ==
    /\ hasCollection(tSource)
    /\ Len(listingFetches) = 2
    /\ Len(detailLinks) = 2
    /\ detailLinks[1].listing = listingFetches[1]
    /\ detailLinks[2].listing = listingFetches[2]
    /\ detailLinks[2].url = detailLinks[1].url + 1
    /\ Len(artifacts) = 2
    /\ tPc = "done"

(***************************************************************************)
(* parseHtml (scraper.ts): the fields of the artifact read from the page.  *)
(* A page is given by the text of its first title element, the content of  *)
(* its description, og:title and og:description meta elements, and its     *)
(* body text; "undefined" stands for an element or attribute that is not   *)
(* there.                                                                  *)
(***************************************************************************)
\* String.prototype.trim on the strings of the pages and names.
trimText(text) ==
    CASE text = "  " -> ""
      [] text = " Vase " -> "Vase"
      [] text = " Met " -> "Met"
      [] OTHER -> text

\* $("title").first().text(): the empty string when there is no title.
textOf(element) == IF element = "undefined" THEN "" ELSE element

\* a || b for strings: b when a is undefined or empty.
orText(a, b) == IF a = "undefined" \/ a = "" THEN b ELSE a

\* [a, b].filter(Boolean)
filterBoolean(values) == SelectSeq(values, LAMBDA v : v # "" /\ v # "undefined")

\* parseHtml: title, summary, metadata.titleCandidates and sourceName.
parseFields(page, source) ==
    LET title == trimText(orText(textOf(page.title), source.name))
        snippet == trimText(page.body)
        descriptionMeta == orText(page.description, "")
        ogTitle == orText(page.ogTitle, "")
        ogDesc == orText(page.ogDescription, "")
    IN  [title |-> orText(orText(title, ogTitle), source.name),
         summary |-> orText(orText(ogDesc, descriptionMeta), snippet),
         titleCandidates |-> filterBoolean(<<title, ogTitle>>),
         sourceName |-> source.name]

HtmlPages ==
    [title : {"undefined", "", "  ", " Vase ", "Vase"},
     ogTitle : {"undefined", "", "Vase (og)"},
     description : {"undefined", "A vase"},
     ogDescription : {"undefined", "A vase (og)"},
     body : {"", "text"}]

ParseSources == [name : {"Met", " Met ", "  "}]

NoParsed == [none |-> TRUE]

ParseInit ==
    /\ RegistryIdle
    /\ TraversalIdle
    /\ GateIdle
    /\ DriverIdle
    /\ NodeIdle
    /\ Cc0Idle
    /\ hCall = [pc |-> "idle", timer |-> "none", aborted |-> FALSE, calls |-> <<>>]
    /\ mirror = [none |-> TRUE]
    /\ atlasKv = [sources |-> {}, artifacts |-> {}]
    /\ atlasLast = [none |-> TRUE]
    /\ atlasNow = 0
    /\ \E page \in HtmlPages, source \in ParseSources :
          pCall = [page |-> page, source |-> source, result |-> NoParsed]

\* parseHtml(source, targetUrl, html, extraMetadata)
ParseHtml ==
    /\ pCall.result = NoParsed
    /\ pCall' = [pCall EXCEPT !.result = parseFields(pCall.page, pCall.source)]
    /\ UNCHANGED <<regVars, travVars, gateVars, drvVars, nodeVars, cc0Vars,
                   hCall, mirror, atlasKv, atlasLast, atlasNow>>

ParseSpec == ParseInit /\ [][ParseHtml]_vars

\* The page has a title element whose text is not blank.
HasTitleTag(page) == page.title # "undefined" /\ trimText(page.title) # ""

\* The page has an og:title with content.
HasOgTitle(page) == page.ogTitle # "undefined" /\ page.ogTitle # ""

\* C32  The artifact's title is the text of the page's title element; for a
\* page without a title element that is not blank, the og:title; and the
\* source's name only when the page has neither.
C32_TitlePreferenceOrder ==
    pCall.result # NoParsed =>
        pCall.result.title =
            (IF HasTitleTag(pCall.page) THEN trimText(pCall.page.title)
             ELSE IF HasOgTitle(pCall.page) THEN pCall.page.ogTitle
             ELSE IF pCall.result.title = trimText(pCall.source.name)
                  THEN trimText(pCall.source.name)
             ELSE pCall.source.name)

\* C33  Whenever a registry operation finds no registry file and
\* materializes one, the file it writes holds an empty sources list, also
\* after earlier adds of the same process on a file whose content lacked a
\* sources array.
C33_MaterializedRegistryIsEmpty ==
    [][\A p \in Procs :
          /\ ((BeginAdd(p) \/ ListAll(p)) /\ ~indexFile.exists /\ indexFile'.exists) =>
                indexFile'.sources = <<>>
          /\ EnsureWrite(p) => indexFile'.sources = <<>>]_vars

\* C34  Every assessment the classifier call returns is well-formed, its
\* verdict being "historical" or "reject": classifier output that parses as
\* a JSON object of another shape yields no assessment.
C34_AssessmentsWellFormed ==
    (gResult.called /\ gResult.value # NoAssessment) =>
        gResult.value.verdict \in {"historical", "reject"}

\* C35  Without the loop option the driver runs processSources once and
\* then stops, and a stopped driver does nothing more.  A pass whose
\* resolution returns an empty list goes to the interval sleep, with or
\* without the loop option, and from the sleep back to the resolution, or to
\* the stop when the interrupt flag is set; processSources begins only on a
\* list that is not empty.
C35_OnePassThenStop ==
    [][ /\ (nPc = "process" /\ nPc' # "process" /\ ~nOpts.loop) => nPc' = "stopped"
        /\ nPc = "stopped" => UNCHANGED vars
        /\ (nPc = "resolve" /\ nPc' # "resolve" /\ nResult'.outcome = "returned") =>
              /\ nResult'.sources = <<>> => nPc' = "sleepEmpty"
              /\ nResult'.sources # <<>> => nPc' = "process" /\ dSources' = nResult'.sources
        /\ (nPc = "sleepEmpty" /\ nPc' # "sleepEmpty") =>
              nPc' = IF keepRunning THEN "resolve" ELSE "stopped"
        /\ nPc' = "process" => dSources' # <<>>
      ]_vars

\* A driver without the loop option that was not interrupted and has stopped
\* after its pass over a resolved list.
C35_Witness ==
    /\ ~nOpts.loop
    /\ keepRunning
    /\ nPc = "stopped"
    /\ nResult.outcome = "returned"
    /\ nResult.sources # <<>>
    /\ dPc = "done"

\* A driver without the loop option back at the resolution after a pass that
\* resolved an empty list.
C35_WitnessRetry ==
    /\ ~nOpts.loop
    /\ nPc = "resolve"
    /\ nResult.outcome = "returned"
    /\ nResult.sources = <<>>

\* C36  Only artifacts with isLikelyCc0 = true go past the heuristic: while
\* the artifact in hand has isLikelyCc0 = false the driver is at none of the
\* classifier call, the submission, the registry append and the cooldown,
\* nothing was done with the artifact and nothing was posted for it, and
\* the step that takes such an artifact leaves the registry as it is.
C36_NonCc0NeverPastHeuristic ==
    /\ [](~cur.isLikelyCc0 =>
             /\ dPc \in {"scrape", "artifact", "done"}
             /\ cur.steps = <<>>
             /\ cur.posted = NoPayload)
    /\ [][(~cur'.isLikelyCc0 \/ ~cur.isLikelyCc0) =>
             UNCHANGED <<indexFile, defaultIndex>>]_vars

\* A driver with the classifier and the append enabled that has gone
\* through a list of two artifacts, the second of them not CC0.
C36_Witness ==
    /\ dOpts.llamaEnabled /\ dOpts.appendArtifactsToIndex /\ ~dOpts.dryRun
    /\ Len(dArtifacts) = 0
    /\ dSrcIdx = 2
    /\ cur.url # NoUrl
    /\ ~cur.isLikelyCc0
    /\ indexFile.sources # <<>>

\* The registry append was attempted for the current artifact.
AppendAttempted ==
    \E i \in 1..Len(cur.steps) : cur.steps[i] \in AppendSteps

\* The registry append of the current artifact failed.
AppendFailed == \E i \in 1..Len(cur.steps) : cur.steps[i] = "append-failed"

\* C38  With appending enabled, the step after the submission step of an
\* artifact is the registry append, whether the submission succeeded, failed
\* or was a dry-run log; the append, failed or not, is followed by the
\* cooldown and the next artifact, and the driver never stops on it.
C38_AppendAfterEverySubmission ==
    /\ [](dPc # "crashed")
    /\ [](dOpts.appendArtifactsToIndex /\ SubmissionTaken =>
             dPc = "append" \/ AppendAttempted)
    /\ [][ /\ (dPc = "append" /\ dPc' # "append") => dPc' = "cooldown" /\ AppendAttempted'
           /\ (dPc = "cooldown" /\ AppendFailed) =>
                 /\ dPc' \in {"artifact", "scrape", "done"}
                 /\ dPc' = "artifact" <=> dArtIdx < Len(dArtifacts)
                 /\ dPc' = "artifact" => dArtIdx' = dArtIdx + 1
         ]_vars

\* The append failed for an artifact whose submission had failed, and the
\* driver is at the next artifact.
C38_Witness ==
    /\ dOpts.appendArtifactsToIndex
    /\ AppendFailed
    /\ \E i \in 1..Len(cur.steps) : cur.steps[i] = "submit-failed"
    /\ dPc = "artifact"
    /\ dArtIdx = 2

\* The append was made after a dry-run log.
C38_WitnessDryRun ==
    /\ dOpts.appendArtifactsToIndex
    /\ \E i \in 1..Len(cur.steps) : cur.steps[i] = "dryrun"
    /\ \E i \in 1..Len(cur.steps) : cur.steps[i] = "appended"

\* The relevance gate rejected the current artifact.
Rejected ==
    /\ cur.llamaAssessment # NoAssessment
    /\ cur.llamaAssessment.verdict = "reject"

\* C39  An artifact rejected by the relevance gate leaves the registry
\* unchanged: the step that rejects it changes nothing of the registry,
\* no append and no cooldown is taken for it, and the driver goes on to the
\* next artifact.
C39_RejectedLeavesRegistry ==
    /\ [](Rejected =>
             /\ dPc \in {"scrape", "artifact", "done"}
             /\ \A i \in 1..Len(cur.steps) : cur.steps[i] = "classify"
             /\ cur.posted = NoPayload)
    /\ [][(Rejected \/ Rejected') => UNCHANGED <<indexFile, defaultIndex>>]_vars

\* With the append and the cooldown enabled, an artifact was rejected after
\* an earlier artifact of the pass had been appended.
C39_Witness ==
    /\ dOpts.appendArtifactsToIndex /\ dOpts.cooldown /\ dOpts.llamaEnabled
    /\ Rejected
    /\ indexFile.sources # <<>>
    /\ dArtIdx = 2 \/ dSrcIdx = 2

\* No two entries of the array have the same normalized URL, ignoring case.
NoDuplicateUrls(srcs) ==
    \A i, j \in 1..Len(srcs) :
        LowerSeq(srcs[i].baseUrl) = LowerSeq(srcs[j].baseUrl) => i = j

\* C37  Under any interleaving of the steps of addSourceToIndex calls of the
\* processes, each write replacing the whole file at once and the registry
\* starting without duplicates, the stored registry never holds two entries
\* whose normalized URLs are equal ignoring case.
C37_NoDuplicateUrlsStored == NoDuplicateUrls(indexFile.sources)

\* Both processes are about to write, each its own entry for URLs that are
\* equal ignoring case, onto a registry that holds an entry already.
C37_Witness ==
    /\ \A p \in Procs : rProc[p].pc = "write"
    /\ indexFile.sources # <<>>
    /\ NewEntry(1).baseUrl # NewEntry(2).baseUrl
    /\ LowerSeq(NewEntry(1).baseUrl) = LowerSeq(NewEntry(2).baseUrl)

\* C40  Lazy materialization writes the empty registry only when the
\* registry file is absent: under any interleaving of the registry
\* operations of two processes, the write of ensureIndexFile takes no entry
\* out of the stored registry.
C40_MaterializationKeepsEntries ==
    [][\A p \in Procs :
          EnsureWrite(p) => StoredEntries \subseteq StoredEntries']_vars

====
